---- MODULE Spec2Model ----
(***************************************************************************)
(* Dreamstime auto-uploader: the Flask controller (app.py), the run thread *)
(* it spawns (run_automation), the bot's run/stop/close lifecycle          *)
(* (automation.py) and the stop-aware wait (utils.py safe_wait).           *)
(*                                                                         *)
(* Granularity.  An HTTP handler is one action.  The run thread is one     *)
(* action per statement of run_automation that writes automation_state,    *)
(* and one action per phase of DreamstimeBot.run; a phase that can block   *)
(* (a step function) is entered and left by two actions so that a stop     *)
(* request can arrive while it is executing.                               *)
(*                                                                         *)
(* The HTTP response of a handler is visible in `resp` for exactly one     *)
(* state and is then handed to the client (ClientReceives).                *)
(***************************************************************************)
EXTENDS Integers, Sequences, FiniteSets, TLC

VARIABLES
  cfg,           \* Config class attributes read by the model (config.py)
  running,       \* automation_state['running']
  progress,      \* automation_state['progress']
  status,        \* automation_state['status']
  bot_instance,  \* automation_state['bot_instance'] (0 = None, else a bot id)
  tpc,           \* per run thread: position in run_automation / bot.run
  bot,           \* per run thread: the DreamstimeBot object it creates
  topts,         \* per run thread: the options passed to Thread(args=(options,))
  tk,            \* per run thread: index of the step of run()'s step list
  tret,          \* per run thread: what bot.run() returned ("none" before)
  resp,          \* the HTTP response being returned (NoResp between requests)
  nstops,        \* number of acknowledged stop requests (model bound)
  w,             \* one safe_wait call under a simulated clock
  loop,          \* one run of the bot followed item by item (steps 5 and 6)
  stuck,         \* calls of refresh_page_if_stuck on one bot
  title,         \* one sanitize_title call and the call on its result
  pace,          \* the counting and pacing after each successful submission
  fill,          \* the fields of each item from its opening to its submission
  nav            \* one call of step1_navigate_to_dreamstime and what it calls

vars == <<cfg, running, progress, status, bot_instance, tpc, bot, topts, tk,
          tret, resp, nstops, w, loop, stuck, title, pace, fill, nav>>

\* The variables of the finer-grained views of the bot's methods.
restvars == <<pace, fill, nav>>
unitvars == <<loop, stuck, title, restvars>>

appvars == <<cfg, running, progress, status, bot_instance, tpc, bot, topts, tk,
             tret, resp, nstops>>

-----------------------------------------------------------------------------
(* Bounds of the model *)

\* accepted start requests (run threads ever spawned) under Spec
MaxStarts == 2
\* acknowledged stop requests
MaxStops == 1
\* accepted start requests under SpecRun and SpecApi
MaxRunStarts == 1
\* events of automation_state['progress'] the model keeps (the latest ones)
ProgressKept == 1
\* longest requested safe_wait duration, in milliseconds
MaxWaitMs == 350
\* longest title given to sanitize_title, in characters
MaxTitleLen == 200
\* items the edit surface can show in one run
MaxItems == 4
\* largest repeatCount tried
MaxRepeat == 4
\* largest max_stuck_retries tried
MaxStuckRetries == 3
\* calls of refresh_page_if_stuck made in a row by its callers
MaxStuckCalls == 3

Threads == 1..MaxStarts

-----------------------------------------------------------------------------
(* config.py *)

DEFAULT_REPEAT_COUNT == 999
DEFAULT_PAUSE_AFTER == 0
DEFAULT_PAUSE_DURATION == 60

\* Config.validate_credentials: raises ValueError unless both are set.
validate_credentials == cfg.credentials

-----------------------------------------------------------------------------
(* JSON values of the start payload and Python's int() on them *)

JAbsent == [t |-> "absent", i |-> 0, s |-> <<>>]
JNull == [t |-> "null", i |-> 0, s |-> <<>>]
JList == [t |-> "list", i |-> 0, s |-> <<>>]
JObject == [t |-> "object", i |-> 0, s |-> <<>>]
JInt(n) == [t |-> "int", i |-> n, s |-> <<>>]
JStr(chars) == [t |-> "str", i |-> 0, s |-> chars]

Digits == <<"0", "1", "2", "3", "4", "5", "6", "7", "8", "9">>
IsDigit(c) == \E d \in 1..10 : Digits[d] = c
DigitVal(c) == (CHOOSE d \in 1..10 : Digits[d] = c) - 1

RECURSIVE LStrip(_)
LStrip(s) == IF s # <<>> /\ Head(s) = " " THEN LStrip(Tail(s)) ELSE s

RECURSIVE RStrip(_)
RStrip(s) ==
  IF s # <<>> /\ s[Len(s)] = " " THEN RStrip(SubSeq(s, 1, Len(s) - 1)) ELSE s

RECURSIVE DigitsValue(_, _)
DigitsValue(s, acc) ==
  IF s = <<>> THEN acc ELSE DigitsValue(Tail(s), 10 * acc + DigitVal(Head(s)))

\* int(x) for a JSON value x: the integer, or the exception int() raises.
PyInt(x) ==
  IF x.t = "int" THEN [exc |-> "none", v |-> x.i]
  ELSE IF x.t = "str" THEN
    LET u == RStrip(LStrip(x.s))
        signed == u # <<>> /\ Head(u) \in {"-", "+"}
        body == IF signed THEN Tail(u) ELSE u
        neg == signed /\ Head(u) = "-"
    IN IF body # <<>> /\ \A k \in 1..Len(body) : IsDigit(body[k])
       THEN [exc |-> "none",
             v |-> IF neg THEN 0 - DigitsValue(body, 0) ELSE DigitsValue(body, 0)]
       ELSE [exc |-> "ValueError", v |-> 0]
  ELSE [exc |-> "TypeError", v |-> 0]

EmptyPayload ==
  [kind |-> "dict", repeatCount |-> JAbsent, pauseAfter |-> JAbsent,
   pauseDuration |-> JAbsent]

\* A JSON array body: truthy, holds none of the option names, has no .get.
ListPayload == [EmptyPayload EXCEPT !.kind = "list"]

\* app.py 124-128 (and 130-134, 136-140): one numeric option of the payload.
CoerceField(x, default) ==
  IF x.t = "absent" THEN [exc |-> "none", v |-> x]
  ELSE LET r == PyInt(x) IN
       IF r.exc = "none" THEN [exc |-> "none", v |-> JInt(r.v)]
       ELSE IF r.exc = "ValueError" THEN [exc |-> "none", v |-> JInt(default)]
       ELSE [exc |-> r.exc, v |-> x]

\* app.py 121-140: the options after the three coercions, or the exception
\* that left the try block.
NormalizeOptions(payload) ==
  LET rc == CoerceField(payload.repeatCount, DEFAULT_REPEAT_COUNT)
      pa == CoerceField(payload.pauseAfter, DEFAULT_PAUSE_AFTER)
      pd == CoerceField(payload.pauseDuration, DEFAULT_PAUSE_DURATION)
  IN IF payload.kind # "dict" THEN [exc |-> "none", options |-> payload]
     ELSE IF rc.exc # "none" THEN [exc |-> rc.exc, options |-> payload]
     ELSE IF pa.exc # "none" THEN [exc |-> pa.exc, options |-> payload]
     ELSE IF pd.exc # "none" THEN [exc |-> pd.exc, options |-> payload]
     ELSE [exc |-> "none",
           options |-> [kind |-> "dict", repeatCount |-> rc.v,
                        pauseAfter |-> pa.v, pauseDuration |-> pd.v]]

-----------------------------------------------------------------------------
(* automation.py: the bot object *)

\* DreamstimeBot.__init__ with AutomationState.__init__
NewBot(cb) ==
  [stop_requested |-> FALSE, is_running |-> FALSE, playwright |-> FALSE,
   browser |-> FALSE, context |-> FALSE, page |-> FALSE, cb |-> cb, closed |-> 0]

\* AutomationState.reset (the fields of this model)
reset(b) == [b EXCEPT !.is_running = FALSE, !.stop_requested = FALSE]

Ev(step, message, severity) ==
  [step |-> step, message |-> message, status |-> severity]

\* automation_state['progress'] is an append-only list that only line 73
\* empties.  The model keeps its latest ProgressKept events.
Keep(list) ==
  SubSeq(list, IF Len(list) > ProgressKept THEN Len(list) - ProgressKept + 1 ELSE 1,
         Len(list))

\* app.py progress_callback, once per event of evs
progress_callback(evs) ==
  /\ progress' = Keep(progress \o evs)
  /\ status' = evs[Len(evs)].status

\* DreamstimeBot.log_progress for the events evs emitted by bot b
log_progress(b, evs) ==
  IF bot[b].cb THEN progress_callback(evs) ELSE UNCHANGED <<progress, status>>

\* DreamstimeBot.close: the object after disconnecting
close(b) ==
  [b EXCEPT !.browser = FALSE, !.context = FALSE, !.page = FALSE,
            !.closed = @ + 1]

CloseEvent == Ev(-1, "Disconnected from Chrome", "success")

-----------------------------------------------------------------------------
(* automation.py: DreamstimeBot.run, one action per phase *)

NoResp == [handler |-> "none"]

\* Thread t is at pc and no handler is in the middle of answering.
At(t, pc) == resp = NoResp /\ tpc[t] = pc

SetBot(t, b) == bot' = [bot EXCEPT ![t] = b]
Goto(t, pc) == tpc' = [tpc EXCEPT ![t] = pc]
Return(t, value) == tret' = [tret EXCEPT ![t] = value]

StepNames ==
  <<"step1_navigate_to_dreamstime", "step2_click_signin",
    "step3_enter_username", "step4_enter_password",
    "step5_click_upload_button", "step6_check_and_click_images">>
NumSteps == Len(StepNames)

\* What a step function can do, seen from run(): the value it returns or the
\* StopRequestedException it lets through ("raise_stop"), with the events it
\* logs on the way.  A step observes the stop flag only inside its waits, so
\* the outcomes that rest on the flag need it set.  step1 and step5 catch
\* Exception, and StopRequestedException with it; step6 re-raises it.
StepOutcomes(k, stopped) ==
  IF k = 1 THEN
    {[ret |-> "true", evs |-> <<Ev(1, "Navigating to upload page...", "info"),
                                Ev(1, "On upload page", "success")>>],
     [ret |-> "false", evs |-> <<Ev(1, "Navigating to upload page...", "info"),
                                 Ev(1, "CAPTCHA could not be solved", "error")>>],
     [ret |-> "false", evs |-> <<Ev(1, "Navigating to upload page...", "info"),
                                 Ev(1, "Not logged in", "warning")>>]}
    \cup (IF stopped
          THEN {[ret |-> "false",
                 evs |-> <<Ev(1, "Navigating to upload page...", "info"),
                           Ev(1, "Navigation failed: Stop requested", "error")>>]}
          ELSE {})
  ELSE IF k \in {2, 3, 4} THEN
    {[ret |-> "true", evs |-> <<Ev(k, "Login handled via cookies", "success")>>]}
  ELSE IF k = 5 THEN
    {[ret |-> "true", evs |-> <<Ev(5, "Checking upload page...", "info"),
                                Ev(5, "On upload page", "success")>>],
     [ret |-> "false", evs |-> <<Ev(5, "Checking upload page...", "info"),
                                 Ev(5, "CAPTCHA could not be solved", "error")>>]}
    \cup (IF stopped
          THEN {[ret |-> "false",
                 evs |-> <<Ev(5, "Checking upload page...", "info"),
                           Ev(5, "Failed to access upload page: Stop requested",
                              "error")>>]}
          ELSE {})
  ELSE
    {[ret |-> "true", evs |-> <<Ev(6, "Looking for images to process...", "info"),
                                Ev(6, "Completed processing", "success")>>],
     [ret |-> "false", evs |-> <<Ev(6, "Looking for images to process...", "info"),
                                 Ev(6, "No images found to process", "warning")>>],
     [ret |-> "false", evs |-> <<Ev(6, "Looking for images to process...", "info"),
                                 Ev(6, "Failed to find images", "error")>>]}
    \cup (IF stopped
          THEN {[ret |-> "raise_stop",
                 evs |-> <<Ev(6, "Looking for images to process...", "info")>>]}
          ELSE {})

\* run() 1169-1173: validate_credentials, then state.reset(), is_running = True.
\* A ValueError from the validation lands in run()'s `except Exception`.
run_begin(t) ==
  /\ At(t, "run")
  /\ IF validate_credentials
     THEN /\ SetBot(t, [reset(bot[t]) EXCEPT !.is_running = TRUE])
          /\ Goto(t, "setup")
          /\ UNCHANGED <<progress, status, tret>>
     ELSE /\ log_progress(t, <<Ev(-1, "Automation failed", "error")>>)
          /\ Return(t, "false")
          /\ Goto(t, "finally")
          /\ UNCHANGED bot
  /\ UNCHANGED <<cfg, running, bot_instance, topts, tk, resp, nstops, w, unitvars>>

\* setup_browser 90-122 and run() 1175-1176
setup_browser(t) ==
  /\ At(t, "setup")
  /\ \/ /\ SetBot(t, [bot[t] EXCEPT !.playwright = TRUE, !.browser = TRUE,
                                    !.context = TRUE, !.page = TRUE])
        /\ log_progress(t, <<Ev(0, "Connecting to existing Chrome session...", "info"),
                             Ev(0, "Connected to existing Chrome session", "success")>>)
        /\ tk' = [tk EXCEPT ![t] = 1]
        /\ Goto(t, "step_check")
        /\ UNCHANGED tret
     \/ /\ SetBot(t, [bot[t] EXCEPT !.playwright = TRUE])
        /\ log_progress(t, <<Ev(0, "Connecting to existing Chrome session...", "info"),
                             Ev(0, "Failed to connect to Chrome", "error"),
                             Ev(0, "Please ensure Chrome is running", "error")>>)
        /\ Return(t, "false")
        /\ Goto(t, "finally")
        /\ UNCHANGED tk
     \/ /\ log_progress(t, <<Ev(0, "Connecting to existing Chrome session...", "info"),
                             Ev(0, "Failed to setup browser", "error")>>)
        /\ Return(t, "false")
        /\ Goto(t, "finally")
        /\ UNCHANGED <<bot, tk>>
  /\ UNCHANGED <<cfg, running, bot_instance, topts, resp, nstops, w, unitvars>>

\* run() 1188-1192: the stop check before each step; 1202-1208 after the last.
\* A variant that starts the next step without looking at the stop flag.
run_step_check_ignores_stop(t) ==
  /\ At(t, "step_check")
  /\ IF tk[t] > NumSteps
     THEN /\ log_progress(t, <<Ev(-1, "Automation completed!", "success")>>)
          /\ Return(t, "true")
          /\ Goto(t, "finally")
     ELSE /\ Goto(t, "in_step")
          /\ UNCHANGED <<progress, status, tret>>
  /\ UNCHANGED <<cfg, running, bot_instance, bot, topts, tk, resp, nstops, w, unitvars>>

run_step_check(t) ==
  /\ At(t, "step_check")
  /\ IF tk[t] > NumSteps
     THEN /\ log_progress(t, <<Ev(-1, "Automation completed!", "success")>>)
          /\ Return(t, "true")
          /\ Goto(t, "finally")
     ELSE IF bot[t].stop_requested
     THEN /\ log_progress(t, <<Ev(-1, "Automation stopped by user", "warning")>>)
          /\ Return(t, "false")
          /\ Goto(t, "finally")
     ELSE /\ Goto(t, "in_step")
          /\ UNCHANGED <<progress, status, tret>>
  /\ UNCHANGED <<cfg, running, bot_instance, bot, topts, tk, resp, nstops, w, unitvars>>

\* run() 1194-1200: the step function runs and returns or raises.
run_step_call(t) ==
  /\ At(t, "in_step")
  /\ \E o \in StepOutcomes(tk[t], bot[t].stop_requested) :
       IF o.ret = "true"
       THEN /\ log_progress(t, o.evs)
            /\ tk' = [tk EXCEPT ![t] = @ + 1]
            /\ Goto(t, "step_check")
            /\ UNCHANGED tret
       ELSE IF o.ret = "false"
       THEN /\ log_progress(t, o.evs \o
                 <<Ev(-1, "Automation stopped at " \o StepNames[tk[t]], "error")>>)
            /\ Return(t, "false")
            /\ Goto(t, "finally")
            /\ UNCHANGED tk
       ELSE /\ log_progress(t, o.evs \o
                 <<Ev(-1, "Automation stopped by user during execution", "warning")>>)
            /\ Return(t, "false")
            /\ Goto(t, "finally")
            /\ UNCHANGED tk
  /\ UNCHANGED <<cfg, running, bot_instance, bot, topts, resp, nstops, w, unitvars>>

\* run() with close() called at the normal end only, not in a finally block
run_finally_closes_on_success_only(t) ==
  /\ At(t, "finally")
  /\ SetBot(t, IF tret[t] = "true"
               THEN close([bot[t] EXCEPT !.is_running = FALSE])
               ELSE [bot[t] EXCEPT !.is_running = FALSE])
  /\ log_progress(t, <<CloseEvent>>)
  /\ Goto(t, IF bot[t].cb THEN "set_result" ELSE "done")
  /\ UNCHANGED <<cfg, running, bot_instance, topts, tk, tret, resp, nstops, w, unitvars>>

\* run() 1217-1221: finally: is_running = False; close()
run_finally(t) ==
  /\ At(t, "finally")
  /\ SetBot(t, close([bot[t] EXCEPT !.is_running = FALSE]))
  /\ log_progress(t, <<CloseEvent>>)
  /\ Goto(t, IF bot[t].cb THEN "set_result" ELSE "done")
  /\ UNCHANGED <<cfg, running, bot_instance, topts, tk, tret, resp, nstops, w, unitvars>>

-----------------------------------------------------------------------------
(* app.py: run_automation, the body of the run thread *)

\* line 72
run_automation_set_running(t) ==
  /\ At(t, "set_running")
  /\ running' = TRUE
  /\ Goto(t, "reset_progress")
  /\ UNCHANGED <<cfg, progress, status, bot_instance, bot, topts, tk, tret,
                 resp, nstops, w, unitvars>>

\* lines 73-74
run_automation_reset_progress(t) ==
  /\ At(t, "reset_progress")
  /\ progress' = <<>>
  /\ status' = "running"
  /\ Goto(t, "create_bot")
  /\ UNCHANGED <<cfg, running, bot_instance, bot, topts, tk, tret, resp,
                 nstops, w, unitvars>>

\* lines 76-77.  DreamstimeBot.__init__ calls options.get, which a JSON array
\* does not have: the AttributeError lands in the handler of line 86.  The
\* thread's argument is read here and nowhere later; the phases of run()
\* modelled here read none of the options the bot copied from it.
run_automation_create_bot(t) ==
  /\ At(t, "create_bot")
  /\ IF topts[t].kind = "dict"
     THEN /\ SetBot(t, NewBot(TRUE))
          /\ bot_instance' = t
          /\ Goto(t, "run")
     ELSE /\ Goto(t, "except")
          /\ UNCHANGED <<bot, bot_instance>>
  /\ topts' = [topts EXCEPT ![t] = EmptyPayload]
  /\ UNCHANGED <<cfg, running, progress, status, tk, tret, resp, nstops, w, unitvars>>

\* lines 81-84
run_automation_set_result(t) ==
  /\ At(t, "set_result")
  /\ status' = IF tret[t] = "true" THEN "completed" ELSE "failed"
  /\ Goto(t, "clear_running")
  /\ UNCHANGED <<cfg, running, progress, bot_instance, bot, topts, tk, tret,
                 resp, nstops, w, unitvars>>

\* lines 86-93
run_automation_except(t) ==
  /\ At(t, "except")
  /\ status' = "error"
  /\ progress' = Keep(Append(progress, Ev(-1, "Error: AttributeError", "error")))
  /\ Goto(t, "clear_running")
  /\ UNCHANGED <<cfg, running, bot_instance, bot, topts, tk, tret, resp,
                 nstops, w, unitvars>>

\* line 95
run_automation_clear_running(t) ==
  /\ At(t, "clear_running")
  /\ running' = FALSE
  /\ Goto(t, "clear_bot")
  /\ UNCHANGED <<cfg, progress, status, bot_instance, bot, topts, tk, tret,
                 resp, nstops, w, unitvars>>

\* line 96
run_automation_clear_bot(t) ==
  /\ At(t, "clear_bot")
  /\ bot_instance' = 0
  /\ Goto(t, "done")
  /\ UNCHANGED <<cfg, running, progress, status, bot, topts, tk, tret, resp,
                 nstops, w, unitvars>>

-----------------------------------------------------------------------------
(* app.py: the request handlers *)

\* A header or query parameter: <<>> when absent, <<s>> when sent with value s.
Truthy(k) == k # <<>> /\ k[1] # ""

\* require_api_key that only looks whether a key was sent
require_api_key_accepts_any_key(req) ==
  LET api_key == IF Truthy(req.header) THEN req.header ELSE req.query IN
  IF ~cfg.REQUIRE_API_KEY THEN "call"
  ELSE IF ~Truthy(api_key) THEN "401"
  ELSE "call"

\* require_api_key 43-63: "call" the wrapped function, or the status refused with
require_api_key(req) ==
  LET api_key == IF Truthy(req.header) THEN req.header ELSE req.query IN
  IF ~cfg.REQUIRE_API_KEY THEN "call"
  ELSE IF ~Truthy(api_key) THEN "401"
  ELSE IF api_key[1] # cfg.API_KEY THEN "403"
  ELSE "call"

Refuse(req, code) ==
  /\ resp' = [handler |-> "require_api_key", req |-> req, code |-> code,
              success |-> FALSE,
              message |-> IF code = "401" THEN "API key required"
                          ELSE "Invalid API key"]
  /\ UNCHANGED <<cfg, running, progress, status, bot_instance, tpc, bot,
                 topts, tk, tret, nstops, w, unitvars>>

Spawned == {t \in Threads : tpc[t] # "none"}

\* start_automation that starts the thread before it validates the credentials
start_automation_validates_late(req, payload, maxThreads) ==
  LET n == NormalizeOptions(payload)
      t == Cardinality(Spawned) + 1
      Answer(code, ok, message, options) ==
        resp' = [handler |-> "start_automation", req |-> req, code |-> code,
                 success |-> ok, message |-> message, payload |-> payload,
                 options |-> options]
  IN IF running
     THEN /\ Answer("400", FALSE, "Automation is already running", payload)
          /\ UNCHANGED <<tpc, topts>>
     ELSE IF n.exc # "none"
     THEN /\ Answer("500", FALSE, "Failed to start automation: " \o n.exc, payload)
          /\ UNCHANGED <<tpc, topts>>
     ELSE /\ t <= maxThreads
          /\ tpc' = [tpc EXCEPT ![t] = "set_running"]
          /\ topts' = [topts EXCEPT ![t] = n.options]
          /\ IF validate_credentials
             THEN Answer("200", TRUE, "Automation started successfully", n.options)
             ELSE Answer("400", FALSE, "Dreamstime credentials not configured",
                         payload)

\* start_automation 106-165.  maxThreads bounds the threads of the model.
start_automation(req, payload, maxThreads) ==
  LET n == NormalizeOptions(payload)
      t == Cardinality(Spawned) + 1
      Answer(code, ok, message, options) ==
        resp' = [handler |-> "start_automation", req |-> req, code |-> code,
                 success |-> ok, message |-> message, payload |-> payload,
                 options |-> options]
  IN IF running
     THEN /\ Answer("400", FALSE, "Automation is already running", payload)
          /\ UNCHANGED <<tpc, topts>>
     ELSE IF ~validate_credentials
     THEN /\ Answer("400", FALSE, "Dreamstime credentials not configured", payload)
          /\ UNCHANGED <<tpc, topts>>
     ELSE IF n.exc # "none"
     THEN /\ Answer("500", FALSE, "Failed to start automation: " \o n.exc, payload)
          /\ UNCHANGED <<tpc, topts>>
     ELSE /\ t <= maxThreads
          /\ tpc' = [tpc EXCEPT ![t] = "set_running"]
          /\ topts' = [topts EXCEPT ![t] = n.options]
          /\ Answer("200", TRUE, "Automation started successfully", n.options)

\* DreamstimeBot.stop 1223-1226
stop(b) ==
  /\ bot' = [bot EXCEPT ![b].stop_requested = TRUE]
  /\ log_progress(b, <<Ev(-1, "Stop requested, automation will halt soon...",
                          "warning")>>)

\* stop_automation 176-205
stop_automation(req) ==
  LET Answer(code, ok, message) ==
        resp' = [handler |-> "stop_automation", req |-> req, code |-> code,
                 success |-> ok, message |-> message]
  IN IF ~running
     THEN /\ Answer("400", FALSE, "No automation is currently running")
          /\ UNCHANGED <<bot, progress, status, nstops>>
     ELSE IF bot_instance # 0
     THEN /\ nstops < MaxStops
          /\ stop(bot_instance)
          /\ nstops' = nstops + 1
          /\ Answer("200", TRUE, "Stop request sent to automation")
     ELSE /\ Answer("500", FALSE, "Bot instance not found")
          /\ UNCHANGED <<bot, progress, status, nstops>>

\* get_status 223-229
get_status(req) ==
  resp' = [handler |-> "get_status", req |-> req, code |-> "200",
           running |-> running, status |-> status, progress |-> progress]

Req(route, header, query) == [route |-> route, header |-> header, query |-> query]

\* Routes /start (105) and /api/start (168-172)
StartRequest(route, header, query, payload, maxThreads) ==
  LET req == Req(route, header, query) IN
  /\ resp = NoResp
  /\ cfg.entry = "app"
  /\ IF route = "/api/start" /\ require_api_key(req) # "call"
     THEN Refuse(req, require_api_key(req))
     ELSE /\ start_automation(req, payload, maxThreads)
          /\ UNCHANGED <<cfg, running, progress, status, bot_instance, bot, tk,
                         tret, nstops, w, unitvars>>

\* Routes /stop (175) and /api/stop (208-212)
StopRequest(route, header, query) ==
  LET req == Req(route, header, query) IN
  /\ resp = NoResp
  /\ cfg.entry = "app"
  /\ IF route = "/api/stop" /\ require_api_key(req) # "call"
     THEN Refuse(req, require_api_key(req))
     ELSE /\ stop_automation(req)
          /\ UNCHANGED <<cfg, running, bot_instance, tpc, topts, tk, tret, w, unitvars>>

\* Routes /status (222) and /api/status (215-219)
StatusRequest(route, header, query) ==
  LET req == Req(route, header, query) IN
  /\ resp = NoResp
  /\ cfg.entry = "app"
  /\ IF route = "/api/status" /\ require_api_key(req) # "call"
     THEN Refuse(req, require_api_key(req))
     ELSE /\ get_status(req)
          /\ UNCHANGED <<cfg, running, progress, status, bot_instance, tpc,
                         bot, topts, tk, tret, nstops, w, unitvars>>

\* The response leaves the server.
ClientReceives ==
  /\ resp # NoResp
  /\ resp' = NoResp
  /\ UNCHANGED <<cfg, running, progress, status, bot_instance, tpc, bot,
                 topts, tk, tret, nstops, w, unitvars>>

-----------------------------------------------------------------------------
(* The controller and its run threads *)

\* No run is followed item by item, no refresh_page_if_stuck or sanitize_title
\* call is being followed.
RestIdle ==
  /\ pace = [pc |-> "idle"]
  /\ fill = [pc |-> "idle"]
  /\ nav = [pc |-> "idle"]

UnitsIdle ==
  /\ loop = [pc |-> "idle"]
  /\ stuck = [pc |-> "idle"]
  /\ title = [pc |-> "idle"]
  /\ RestIdle

\* No safe_wait call is being followed.
WaitIdle == [pc |-> "idle", ms |-> 0, elapsed |-> 0, wait_time |-> 0, left |-> 0,
             now |-> 0, stop |-> FALSE, during |-> FALSE, stop_at |-> 0,
             cb |-> FALSE]

\* automation_state as app.py 20-25 builds it; no thread yet.
InitApp ==
  /\ running = FALSE
  /\ progress = <<>>
  /\ status = "idle"
  /\ bot_instance = 0
  /\ topts = [t \in Threads |-> EmptyPayload]
  /\ tk = [t \in Threads |-> 0]
  /\ tret = [t \in Threads |-> "none"]
  /\ resp = NoResp
  /\ nstops = 0

\* Either the Flask application (app.py 238-246) with no API-key gate, or the
\* bot run on its own (automation.py 1249-1252: no callback, no controller).
Init ==
  /\ InitApp
  /\ w = WaitIdle
  /\ UnitsIdle
  /\ \E c \in BOOLEAN, e \in {"app", "bot"} :
       /\ cfg = [credentials |-> c, REQUIRE_API_KEY |-> FALSE, API_KEY |-> "",
                 entry |-> e]
       /\ tpc = [t \in Threads |-> IF e = "bot" /\ t = 1 THEN "run" ELSE "none"]
       /\ bot = [t \in Threads |-> NewBot(FALSE)]

UiPayloads == {EmptyPayload, ListPayload}

\* The web UI's routes, which send no API key.
Handlers(maxThreads) ==
  \/ \E p \in UiPayloads : StartRequest("/start", <<>>, <<>>, p, maxThreads)
  \/ StopRequest("/stop", <<>>, <<>>)
  \/ StatusRequest("/status", <<>>, <<>>)
  \/ ClientReceives

ThreadSteps ==
  \/ \E t \in Threads : run_automation_set_running(t)
  \/ \E t \in Threads : run_automation_reset_progress(t)
  \/ \E t \in Threads : run_automation_create_bot(t)
  \/ \E t \in Threads : run_begin(t)
  \/ \E t \in Threads : setup_browser(t)
  \/ \E t \in Threads : run_step_check(t)
  \/ \E t \in Threads : run_step_call(t)
  \/ \E t \in Threads : run_finally(t)
  \/ \E t \in Threads : run_automation_set_result(t)
  \/ \E t \in Threads : run_automation_except(t)
  \/ \E t \in Threads : run_automation_clear_running(t)
  \/ \E t \in Threads : run_automation_clear_bot(t)

\* Concurrent requests against the controller: up to MaxStarts run threads.
Next == Handlers(MaxStarts) \/ ThreadSteps

Spec == Init /\ [][Next]_vars

\* The same, with MaxRunStarts run threads.
NextRun == Handlers(MaxRunStarts) \/ ThreadSteps

SpecRun == Init /\ [][NextRun]_vars

-----------------------------------------------------------------------------
(* Runs and their phases, as the claims speak of them *)

\* A run is active from the acknowledgement of its start request until its
\* thread has cleared the running flag (line 95).
Active(t) == tpc[t] \notin {"none", "clear_bot", "done"}
ActiveRuns == {t \in Threads : Active(t)}

\* bot.run() of thread t has returned.
Returned(t) ==
  tret[t] # "none" /\ tpc[t] \in {"set_result", "clear_running", "clear_bot", "done"}

StatusEnum == {"idle", "running", "completed", "failed", "error"}

-----------------------------------------------------------------------------
(* C1: at most one run is active at any time: a start request issued while
   a run is active starts no second run thread. *)
C1_AtMostOneActiveRun == Cardinality(ActiveRuns) <= 1

(* C2: a stop request made when no run is active is answered with an error;
   one made while a run is active is answered with success and has set
   stop_requested on the bot of the active run. *)
C2_StopAnswer ==
  resp.handler = "stop_automation" =>
    /\ ActiveRuns = {} => ~resp.success /\ resp.code = "400"
    /\ ActiveRuns # {} =>
         /\ resp.success
         /\ \E t \in ActiveRuns : bot[t].stop_requested

(* C3: stop_requested is monotonic within a run: once true on the bot of an
   active run it stays true for as long as that run is active. *)
C3_StopRequestedMonotonic ==
  [][\A t \in Threads :
       (Active(t) /\ bot[t].stop_requested /\ tpc'[t] \notin {"none", "clear_bot", "done"})
         => bot'[t].stop_requested]_vars

(* C5: every execution of run() calls close() exactly once before it
   returns; after it the bot holds no page, context or browser and
   is_running is false.  Before run() returns close() has not been called
   more than once. *)
C5_CloseOnEveryExit ==
  \A t \in Threads :
    /\ bot[t].closed <= 1
    /\ Returned(t) =>
         /\ bot[t].closed = 1
         /\ ~bot[t].page /\ ~bot[t].context /\ ~bot[t].browser
         /\ ~bot[t].is_running
    /\ tpc[t] \in {"run", "setup", "step_check", "in_step", "finally"} =>
         bot[t].closed = 0

\* A run that had connected to the browser, was stopped, and has returned.
C5_Witness ==
  \E t \in Threads :
    /\ Returned(t) /\ tret[t] = "false"
    /\ bot[t].stop_requested /\ bot[t].playwright /\ bot[t].closed = 1

(* C7: the status the status query returns, and the stored status in every
   state, is one of idle, running, completed, failed, error. *)
C7_StatusInEnum ==
  /\ status \in StatusEnum
  /\ resp.handler = "get_status" => resp.status \in StatusEnum

-----------------------------------------------------------------------------
(* The HTTP interface: every route, with and without the API-key gate *)

OptionNames == {"repeatCount", "pauseAfter", "pauseDuration"}

OptionDefault(f) ==
  IF f = "repeatCount" THEN DEFAULT_REPEAT_COUNT
  ELSE IF f = "pauseAfter" THEN DEFAULT_PAUSE_AFTER
  ELSE DEFAULT_PAUSE_DURATION

\* Values a client can send for a numeric option: an integer, strings that
\* int() accepts ("12", " -3 ") and rejects ("ab", ""), null, a list, an object.
FieldValues ==
  {JInt(5), JStr(<<"1", "2">>), JStr(<<" ", "-", "3", " ">>),
   JStr(<<"a", "b">>), JStr(<<>>), JNull, JList, JObject}

ApiPayloads ==
  {EmptyPayload, ListPayload}
  \cup {[EmptyPayload EXCEPT ![f] = v] : f \in OptionNames, v \in FieldValues}
  \cup {[kind |-> "dict", repeatCount |-> a, pauseAfter |-> b, pauseDuration |-> c] :
          a, b, c \in {JStr(<<"1", "2">>), JStr(<<"a", "b">>), JNull}}

HeaderValues == {<<>>, <<"">>, <<"k1">>, <<"k2">>}
QueryValues == {<<>>, <<"k1">>, <<"k2">>}

InitApi ==
  /\ InitApp
  /\ w = WaitIdle
  /\ UnitsIdle
  /\ \E c \in BOOLEAN, r \in BOOLEAN, k \in {"", "k1"} :
       cfg = [credentials |-> c, REQUIRE_API_KEY |-> r, API_KEY |-> k,
              entry |-> "app"]
  /\ tpc = [t \in Threads |-> "none"]
  /\ bot = [t \in Threads |-> NewBot(FALSE)]

ApiHandlers ==
  \/ \E p \in ApiPayloads : StartRequest("/start", <<>>, <<>>, p, MaxRunStarts)
  \/ \E h \in HeaderValues, q \in QueryValues, p \in ApiPayloads :
       StartRequest("/api/start", h, q, p, MaxRunStarts)
  \/ \E route \in {"/stop", "/api/stop"}, h \in HeaderValues, q \in QueryValues :
       StopRequest(route, h, q)
  \/ \E route \in {"/status", "/api/status"}, h \in HeaderValues, q \in QueryValues :
       StatusRequest(route, h, q)
  \/ ClientReceives

NextApi == ApiHandlers \/ ThreadSteps

SpecApi == InitApi /\ [][NextApi]_vars

GatedRoutes == {"/api/start", "/api/stop", "/api/status"}
Operations == {"start_automation", "stop_automation", "get_status"}

\* The key a request supplies: the X-API-Key header, or else the api_key
\* query parameter; an empty value counts as none.
SuppliedKey(req) == IF Truthy(req.header) THEN req.header ELSE req.query

(* C6: a start request that finds a run active or the credentials
   unconfigured is answered with an error, spawns no thread and leaves
   running, status, progress and bot_instance as they were; an accepted one
   is answered at once, before the run thread has executed anything, with
   the options in which every numeric option sent is an integer. *)
C6_StartRejectOrAcknowledge ==
  [][resp'.handler = "start_automation" =>
       /\ (running \/ ~cfg.credentials) => ~resp'.success /\ resp'.code = "400"
       /\ ~resp'.success =>
            UNCHANGED <<running, status, progress, bot_instance, tpc, topts, bot>>
       /\ resp'.success =>
            /\ UNCHANGED <<running, status, progress, bot_instance, bot>>
            /\ \E t \in Threads :
                 /\ tpc[t] = "none" /\ tpc'[t] = "set_running"
                 /\ topts'[t] = resp'.options
                 /\ \A u \in Threads \ {t} : tpc'[u] = tpc[u]
            /\ resp'.payload.kind = "dict" =>
                 \A f \in OptionNames :
                   IF resp'.payload[f].t = "absent"
                   THEN resp'.options[f].t = "absent"
                   ELSE resp'.options[f].t = "int"]_vars

\* A start request refused while a run is in progress and has logged events.
C6_Witness ==
  /\ resp.handler = "start_automation"
  /\ resp.code = "400" /\ resp.message = "Automation is already running"
  /\ running /\ progress # <<>> /\ bot_instance # 0

(* C8: on a gated route with the gate required, a request with no key is
   refused with 401 and one with a key other than the secret with 403, by
   the gate itself; with the matching key, or with the gate not required,
   the wrapped operation answers. *)
C8_GateOutcome ==
  (resp # NoResp /\ resp.req.route \in GatedRoutes) =>
    LET key == SuppliedKey(resp.req) IN
    IF ~cfg.REQUIRE_API_KEY THEN resp.handler \in Operations
    ELSE IF ~Truthy(key) THEN resp.handler = "require_api_key" /\ resp.code = "401"
    ELSE IF key[1] # cfg.API_KEY
    THEN resp.handler = "require_api_key" /\ resp.code = "403"
    ELSE resp.handler \in Operations

\* With the gate required and a run in progress, a stop request on the gated
\* route whose X-API-Key header is not the secret is refused as forbidden.
C8_Witness ==
  /\ cfg.REQUIRE_API_KEY /\ resp # NoResp
  /\ resp.req.route = "/api/stop" /\ running /\ bot_instance # 0
  /\ Truthy(resp.req.header) /\ resp.req.header[1] # cfg.API_KEY
  /\ resp.handler = "require_api_key" /\ resp.code = "403"

(* C9: when the gate is required, every request that an operation (start,
   stop, status) answers carried the secret. *)
C9_NoOperationWithoutSecret ==
  (cfg.REQUIRE_API_KEY /\ resp.handler \in Operations) =>
    /\ Truthy(SuppliedKey(resp.req))
    /\ SuppliedKey(resp.req)[1] = cfg.API_KEY

(* C10: a start request that is not refused for a run in progress or for
   missing credentials is accepted whatever the numeric options hold, and
   every option int() cannot convert carries its default in the answer. *)
C10_CoercionFallsBack ==
  (/\ resp.handler = "start_automation"
   /\ resp.payload.kind = "dict"
   /\ resp.message \notin {"Automation is already running",
                           "Dreamstime credentials not configured"}) =>
    /\ resp.success
    /\ \A f \in OptionNames :
         (resp.payload[f].t # "absent" /\ PyInt(resp.payload[f]).exc # "none")
           => resp.options[f] = JInt(OptionDefault(f))

-----------------------------------------------------------------------------
(* utils.py: safe_wait under a simulated clock *)

\* utils.py 178: the polling interval, in milliseconds
interval == 100

\* The clock advances in half intervals, so that the stop flag can be set at
\* the start, in the middle and at the end of a polling increment.
Tick == interval \div 2

WaitDurations == {k * Tick : k \in 0..(MaxWaitMs \div Tick)}

Min(a, b) == IF a < b THEN a ELSE b

\* The call safe_wait(page, ms, stop_check_callback) is entered at time 0;
\* cb tells whether a callback was passed, stop whether the flag it reads is
\* already set.
InitWait ==
  /\ InitApp
  /\ UnitsIdle
  /\ cfg = [credentials |-> TRUE, REQUIRE_API_KEY |-> FALSE, API_KEY |-> "",
            entry |-> "app"]
  /\ tpc = [t \in Threads |-> "none"]
  /\ bot = [t \in Threads |-> NewBot(FALSE)]
  /\ \E ms \in WaitDurations, callback \in BOOLEAN, flag \in BOOLEAN :
       w = [pc |-> IF callback THEN "loop" ELSE "plain", ms |-> ms,
            elapsed |-> 0, wait_time |-> 0, left |-> IF callback THEN 0 ELSE ms,
            now |-> 0, stop |-> flag, during |-> FALSE, stop_at |-> 0,
            cb |-> callback]

\* utils.py 181-185: the loop test, the stop check, the next increment
safe_wait_poll ==
  /\ w.pc = "loop"
  /\ w' = IF ~(w.elapsed < w.ms) THEN [w EXCEPT !.pc = "returned"]
          ELSE IF w.stop THEN [w EXCEPT !.pc = "raised"]
          ELSE LET wait_time == Min(interval, w.ms - w.elapsed) IN
               [w EXCEPT !.pc = "sleeping", !.wait_time = wait_time,
                         !.left = wait_time]
  /\ UNCHANGED <<appvars, unitvars>>

\* utils.py 186: page.wait_for_timeout(wait_time), one tick of it
wait_for_timeout_tick ==
  /\ w.pc \in {"sleeping", "plain"}
  /\ w.left > 0
  /\ w' = [w EXCEPT !.left = @ - Min(Tick, @), !.now = @ + Min(Tick, w.left)]
  /\ UNCHANGED <<appvars, unitvars>>

\* utils.py 187: the increment is over
safe_wait_wake ==
  /\ w.pc = "sleeping"
  /\ w.left = 0
  /\ w' = [w EXCEPT !.pc = "loop", !.elapsed = @ + w.wait_time]
  /\ UNCHANGED <<appvars, unitvars>>

\* utils.py 173-175: no callback, one plain wait
safe_wait_plain_return ==
  /\ w.pc = "plain"
  /\ w.left = 0
  /\ w' = [w EXCEPT !.pc = "returned"]
  /\ UNCHANGED <<appvars, unitvars>>

\* automation.py 1225, from another thread, at an instant strictly inside the
\* requested duration
StopDuringWait ==
  /\ w.pc \in {"loop", "sleeping", "plain"}
  /\ w.now < w.ms
  /\ ~w.stop
  /\ w' = [w EXCEPT !.stop = TRUE, !.during = TRUE, !.stop_at = w.now]
  /\ UNCHANGED <<appvars, unitvars>>

NextWait ==
  \/ safe_wait_poll
  \/ wait_for_timeout_tick
  \/ safe_wait_wake
  \/ safe_wait_plain_return
  \/ StopDuringWait

SpecWait == InitWait /\ [][NextWait]_vars

(* C4: if the stop flag becomes true while safe_wait(page, ms, stop_check)
   is waiting, safe_wait raises StopRequestedException, and does so within
   one 100 ms polling increment of the flag being set: it never returns
   normally, and never waits on for more than an increment. *)
C4_StopRaisesWithinInterval ==
  (w.cb /\ w.during) =>
    /\ w.pc # "returned"
    /\ w.now - w.stop_at <= interval

-----------------------------------------------------------------------------
(* utils.py: sanitize_title *)

\* utils.py 155-156: the length the title is cut to
TitleLimit == 115

\* str.replace(old, new) for a one-character old, computed by halves
RECURSIVE replace(_, _, _)
replace(s, old, new) ==
  IF Len(s) = 0 THEN <<>>
  ELSE IF Len(s) = 1 THEN (IF s[1] = old THEN new ELSE s)
  ELSE LET h == Len(s) \div 2 IN
       replace(SubSeq(s, 1, h), old, new) \o replace(SubSeq(s, h + 1, Len(s)), old, new)

\* s[:n]
Prefix(s, n) == SubSeq(s, 1, Min(n, Len(s)))

\* A title argument: None, or a string (a sequence of characters).
None == [none |-> TRUE, s |-> <<>>]
Str(s) == [none |-> FALSE, s |-> s]

\* sanitize_title that cuts first and then writes ", " for each colon
sanitize_title_truncates_first(t) ==
  IF t.none \/ t.s = <<>> THEN <<>>
  ELSE replace(Prefix(t.s, TitleLimit), ":", <<",", " ">>)

\* sanitize_title that keeps one character more than the limit
sanitize_title_keeps_116(t) ==
  IF t.none \/ t.s = <<>> THEN <<>>
  ELSE LET sanitized == replace(t.s, ":", <<",">>) IN
       IF Len(sanitized) > TitleLimit THEN Prefix(sanitized, TitleLimit + 1)
       ELSE sanitized

\* utils.py 138-158
sanitize_title(t) ==
  IF t.none \/ t.s = <<>> THEN <<>>
  ELSE LET sanitized == replace(t.s, ":", <<",">>) IN
       IF Len(sanitized) > TitleLimit THEN Prefix(sanitized, TitleLimit)
       ELSE sanitized

\* Titles of every length up to MaxTitleLen: without colons, of colons only,
\* with a colon at every second place, with one colon at the end.
TitleInputs ==
  {None}
  \cup {Str([i \in 1..n |-> "x"]) : n \in 0..MaxTitleLen}
  \cup {Str([i \in 1..n |-> ":"]) : n \in 0..MaxTitleLen}
  \cup {Str([i \in 1..n |-> IF i % 2 = 0 THEN ":" ELSE "a"]) : n \in 0..MaxTitleLen}
  \cup {Str([i \in 1..n |-> IF i = n THEN ":" ELSE "b"]) : n \in 0..MaxTitleLen}

InitTitle ==
  /\ InitApp
  /\ cfg = [credentials |-> TRUE, REQUIRE_API_KEY |-> FALSE, API_KEY |-> "",
            entry |-> "app"]
  /\ tpc = [t \in Threads |-> "none"]
  /\ bot = [t \in Threads |-> NewBot(FALSE)]
  /\ w = WaitIdle
  /\ RestIdle
  /\ loop = [pc |-> "idle"]
  /\ stuck = [pc |-> "idle"]
  /\ \E t \in TitleInputs :
       title = [pc |-> "call", x |-> t, once |-> <<>>, twice |-> <<>>]

\* sanitize_title(x)
sanitize_title_call ==
  /\ title.pc = "call"
  /\ title' = [title EXCEPT !.pc = "once", !.once = sanitize_title(title.x)]
  /\ UNCHANGED <<appvars, w, loop, stuck, restvars>>

\* sanitize_title(sanitize_title(x))
sanitize_title_again ==
  /\ title.pc = "once"
  /\ title' = [title EXCEPT !.pc = "twice",
                            !.twice = sanitize_title(Str(title.once))]
  /\ UNCHANGED <<appvars, w, loop, stuck, restvars>>

NextTitle == sanitize_title_call \/ sanitize_title_again

SpecTitle == InitTitle /\ [][NextTitle]_vars

HasColon(s) == \E i \in 1..Len(s) : s[i] = ":"

(* C19: sanitize_title is idempotent: applied to its own result it returns
   that result, for every string and for absent input. *)
C19_SanitizeIdempotent ==
  title.pc = "twice" => title.twice = title.once

\* Both calls made on a title longer than the limit that holds a colon.
C19_Witness ==
  /\ title.pc = "twice"
  /\ Len(title.x.s) > TitleLimit /\ HasColon(title.x.s)
  /\ title.twice = title.once /\ title.once # title.x.s

(* C20: sanitize_title(x) is x with every ':' replaced by ',' and then cut
   to its first 115 characters: it holds no ':' and is at most 115 long
   (exactly 115 for a 200-character input); empty or absent input gives the
   empty string. *)
C20_SanitizeResult ==
  title.pc \in {"once", "twice"} =>
    LET x == title.x.s
        r == title.once
    IN /\ Len(r) = (IF Len(x) < 115 THEN Len(x) ELSE 115)
       /\ \A i \in 1..Len(r) : r[i] = (IF x[i] = ":" THEN "," ELSE x[i])
       /\ ~HasColon(r)
       /\ Len(x) = 200 => Len(r) = 115
       /\ (title.x.none \/ x = <<>>) => r = <<>>

\* The 200-character title with colons has been sanitized to 115 characters.
C20_Witness ==
  /\ title.pc = "once"
  /\ Len(title.x.s) = 200 /\ HasColon(title.x.s)
  /\ Len(title.once) = 115

-----------------------------------------------------------------------------
(* automation.py: refresh_page_if_stuck, the stuck-page guard *)

\* A bot whose state was reset: page_stuck_count = 0 (automation.py 34, 45).
\* max_stuck_retries is an attribute of the state; every value 0..MaxStuckRetries
\* is tried.  depth counts the recursive calls in progress, reloads the reload
\* attempts made since the page last answered.
InitStuck ==
  /\ InitApp
  /\ cfg = [credentials |-> TRUE, REQUIRE_API_KEY |-> FALSE, API_KEY |-> "",
            entry |-> "app"]
  /\ tpc = [t \in Threads |-> "none"]
  /\ bot = [t \in Threads |-> NewBot(FALSE)]
  /\ w = WaitIdle
  /\ RestIdle
  /\ loop = [pc |-> "idle"]
  /\ title = [pc |-> "idle"]
  /\ \E m \in 0..MaxStuckRetries :
       stuck = [pc |-> "enter", page_stuck_count |-> 0, max_stuck_retries |-> m,
                stop_requested |-> FALSE, depth |-> 0, reloads |-> 0,
                ret |-> "none", calls |-> 1]

\* refresh_page_if_stuck without the test of lines 282-284
refresh_page_if_stuck_enter_unguarded ==
  /\ stuck.pc = "enter"
  /\ stuck' = [stuck EXCEPT !.page_stuck_count = @ + 1, !.pc = "reload"]
  /\ UNCHANGED <<appvars, w, loop, title, restvars>>

\* automation.py 282-287: the guard, then the count of this attempt
refresh_page_if_stuck_enter ==
  /\ stuck.pc = "enter"
  /\ stuck' = IF stuck.page_stuck_count >= stuck.max_stuck_retries
              THEN [stuck EXCEPT !.ret = "false", !.pc = "returned", !.depth = 0]
              ELSE [stuck EXCEPT !.page_stuck_count = @ + 1, !.pc = "reload"]
  /\ UNCHANGED <<appvars, w, loop, title, restvars>>

\* automation.py 289-301 and 317-319: page.reload, or page.goto after a
\* timeout of the reload; any other exception ends the call with False.
refresh_page_if_stuck_reload ==
  /\ stuck.pc = "reload"
  /\ \E outcome \in {"reloaded", "timeout_then_goto", "exception"} :
       stuck' = IF outcome = "exception"
                THEN [stuck EXCEPT !.reloads = @ + 1, !.ret = "false",
                                   !.pc = "returned", !.depth = 0]
                ELSE [stuck EXCEPT !.reloads = @ + 1, !.pc = "settle"]
  /\ UNCHANGED <<appvars, w, loop, title, restvars>>

\* automation.py 304 and 315-316: safe_wait(3000), which raises when it sees
\* the stop flag and may return normally when the flag is set late in the wait.
refresh_page_if_stuck_settle ==
  /\ stuck.pc = "settle"
  /\ \/ stuck' = [stuck EXCEPT !.pc = "verify"]
     \/ /\ stuck.stop_requested
        /\ stuck' = [stuck EXCEPT !.ret = "raise_stop", !.pc = "returned",
                                  !.depth = 0]
  /\ UNCHANGED <<appvars, w, loop, title, restvars>>

\* A variant whose successful refresh leaves the counter as it is.
refresh_page_if_stuck_verify_keeps_count ==
  /\ stuck.pc = "verify"
  /\ \E is_page_stuck \in BOOLEAN :
       stuck' = IF ~is_page_stuck
                THEN [stuck EXCEPT !.reloads = 0,
                                   !.ret = "true", !.pc = "returned", !.depth = 0]
                ELSE [stuck EXCEPT !.depth = @ + 1, !.pc = "enter"]
  /\ UNCHANGED <<appvars, w, loop, title, restvars>>

\* automation.py 307-313: is_page_stuck(); success resets the counter, a page
\* still stuck makes the recursive call.
refresh_page_if_stuck_verify ==
  /\ stuck.pc = "verify"
  /\ \E is_page_stuck \in BOOLEAN :
       stuck' = IF ~is_page_stuck
                THEN [stuck EXCEPT !.page_stuck_count = 0, !.reloads = 0,
                                   !.ret = "true", !.pc = "returned", !.depth = 0]
                ELSE [stuck EXCEPT !.depth = @ + 1, !.pc = "enter"]
  /\ UNCHANGED <<appvars, w, loop, title, restvars>>

\* A caller (automation.py 342, 501, 522, 666, 910) calls the guard again.
refresh_page_if_stuck_called_again ==
  /\ stuck.pc = "returned"
  /\ stuck.calls < MaxStuckCalls
  /\ stuck' = [stuck EXCEPT !.pc = "enter", !.ret = "none", !.calls = @ + 1]
  /\ UNCHANGED <<appvars, w, loop, title, restvars>>

\* automation.py 334-336: wait_for_element_with_refresh found its element.
wait_for_element_with_refresh_found ==
  /\ stuck.pc = "returned"
  /\ stuck.page_stuck_count > 0
  /\ stuck' = [stuck EXCEPT !.page_stuck_count = 0, !.reloads = 0]
  /\ UNCHANGED <<appvars, w, loop, title, restvars>>

\* automation.py 1225, from another thread
StopDuringRefresh ==
  /\ stuck.pc \in {"enter", "reload", "settle", "verify"}
  /\ ~stuck.stop_requested
  /\ stuck' = [stuck EXCEPT !.stop_requested = TRUE]
  /\ UNCHANGED <<appvars, w, loop, title, restvars>>

NextStuck ==
  \/ refresh_page_if_stuck_enter
  \/ refresh_page_if_stuck_reload
  \/ refresh_page_if_stuck_settle
  \/ refresh_page_if_stuck_verify
  \/ refresh_page_if_stuck_called_again
  \/ wait_for_element_with_refresh_found
  \/ StopDuringRefresh

SpecStuck == InitStuck /\ [][NextStuck]_vars

(* C13: refresh_page_if_stuck makes at most max_stuck_retries consecutive
   reload attempts and at most max_stuck_retries nested calls, whatever the
   page answers; entered with page_stuck_count at max_stuck_retries it
   returns False at once, with no reload and no further call. *)
C13_RefreshBounded ==
  /\ [](/\ stuck.page_stuck_count <= stuck.max_stuck_retries
        /\ stuck.reloads <= stuck.max_stuck_retries
        /\ stuck.depth <= stuck.max_stuck_retries)
  /\ [][(stuck.pc = "enter" /\ stuck.page_stuck_count >= stuck.max_stuck_retries)
          => /\ stuck'.pc \in {"enter", "returned"}
             /\ stuck'.pc = "returned" => stuck'.ret = "false"
             /\ stuck'.reloads = stuck.reloads
             /\ stuck'.depth <= stuck.depth
             /\ stuck'.page_stuck_count = stuck.page_stuck_count]_vars

\* C32: page_stuck_count is always from 0 to max_stuck_retries; it is 0
\* in the state where refresh_page_if_stuck has just returned True, and
\* in the state after wait_for_element_with_refresh found its element at
\* the first wait.
C32_StuckCountBoundedAndReset ==
  /\ [](stuck.page_stuck_count \in 0..stuck.max_stuck_retries)
  /\ [][stuck'.pc = "returned" /\ stuck'.ret = "true" /\ stuck.pc # "returned"
          => stuck'.page_stuck_count = 0]_vars
  /\ [][stuck.pc = "returned" /\ stuck'.pc = "returned" /\ stuck' # stuck
          => stuck'.page_stuck_count = 0]_vars

\* A second call of the guard recovered the page and returned True
\* with the counter back at 0.
C32_Witness ==
  /\ stuck.pc = "returned" /\ stuck.ret = "true"
  /\ stuck.calls = 2
  /\ stuck.max_stuck_retries = 3
  /\ stuck.page_stuck_count = 0

\* Three reloads in a row left the page stuck and the third nested call gave up.
C13_Witness ==
  /\ stuck.pc = "returned" /\ stuck.ret = "false"
  /\ stuck.max_stuck_retries = 3
  /\ stuck.page_stuck_count = 3 /\ stuck.reloads = 3

-----------------------------------------------------------------------------
(* automation.py: one run followed item by item.  Steps 5 and 6 of run(),   *)
(* process_images_loop, and the roll-up of the result by run_automation.    *)
(*                                                                          *)
(* The edit surface is seen through `items`: the identifier shown by the    *)
(* i-th item the loop opens.  Beyond the last one nothing is discoverable.  *)

\* config.py 48
MAX_RETRIES == 3

ItemIds == {"A", "B"}
ItemSequences == UNION {[1..n -> ItemIds] : n \in 0..MaxItems}

\* The state after run() 1169-1173 and steps 1 to 4: counters reset, no stop
\* requested.  prefilled: every item has its title and description filled and
\* the template is "none", so that lines 791-865 wait for nothing.
InitLoop ==
  /\ InitApp
  /\ cfg = [credentials |-> TRUE, REQUIRE_API_KEY |-> FALSE, API_KEY |-> "",
            entry |-> "app"]
  /\ tpc = [t \in Threads |-> "none"]
  /\ bot = [t \in Threads |-> NewBot(FALSE)]
  /\ w = WaitIdle
  /\ RestIdle
  /\ stuck = [pc |-> "idle"]
  /\ title = [pc |-> "idle"]
  /\ \E its \in ItemSequences, rc \in 1..MaxRepeat,
        action \in {"skip", "stop"}, pre \in BOOLEAN :
       loop = [pc |-> "check5", items |-> its, repeat_count |-> rc,
               same_id_action |-> action, prefilled |-> pre,
               i |-> 0, processed |-> 0,
               processed_count |-> 0, successful_count |-> 0,
               last_image_id |-> "", retry_count |-> 0,
               stop_requested |-> FALSE,
               clicks |-> [k \in 1..MaxItems |-> 0],
               healthy |-> TRUE, last |-> "success",
               ret6 |-> "none", run_ret |-> "none", status |-> "running",
               end_cause |-> "none", stop_exc |-> "none",
               dup_i |-> 0, dup_count |-> 0, abandoned |-> 0]

\* check_for_captcha 124-192, seen from its caller: no challenge, a challenge
\* bypassed or solved in time (both return True), the 5-minute wait exhausted
\* (False), or StopRequestedException out of the wait (168-171, 188-189).
check_for_captcha(stop_requested) ==
  {"clear", "solved", "exhausted"}
  \cup (IF stop_requested THEN {"raise_stop"} ELSE {})

\* A StopRequestedException leaves step6 through lines 943-944 and 648-649.
Propagate(l) ==
  [l EXCEPT !.ret6 = "raise_stop", !.stop_exc = "propagated",
            !.end_cause = "stop_exception", !.pc = "step6_done"]

\* `break` out of the item loop, for the reason given.
\* process_images_loop 945-947: any other exception raised inside the
\* loop is caught outside the for statement; the method logs
\* 'Processing loop error' and returns False.
LoopError(l) ==
  [l EXCEPT !.ret6 = "false", !.end_cause = "loop_error", !.last = "error",
            !.healthy = FALSE, !.pc = "step6_done"]

Break(l, cause, severity) ==
  [l EXCEPT !.end_cause = cause, !.last = severity, !.pc = "loop_end"]

\* run() 1188-1192, before step 5 and before step 6
run_stop_check ==
  /\ loop.pc \in {"check5", "check6"}
  /\ loop' = IF loop.stop_requested
             THEN [loop EXCEPT !.last = "warning", !.run_ret = "false",
                               !.end_cause = "stop_boundary", !.pc = "finally"]
             ELSE [loop EXCEPT !.pc = IF loop.pc = "check5" THEN "step5"
                                      ELSE "step6"]
  /\ UNCHANGED <<appvars, w, stuck, title, restvars>>

\* step5_click_upload_button 547-580 with run() 1194-1197.  The step catches
\* Exception (578), and a StopRequestedException out of the challenge wait
\* with it.
step5_click_upload_button ==
  /\ loop.pc = "step5"
  /\ \E o \in check_for_captcha(loop.stop_requested) :
       loop' = IF o \in {"clear", "solved"}
               THEN [loop EXCEPT !.last = "success", !.pc = "check6",
                                 !.healthy = @ /\ o = "clear"]
               ELSE IF o = "exhausted"
               THEN [loop EXCEPT !.last = "error", !.run_ret = "false",
                                 !.end_cause = "captcha_exhausted",
                                 !.healthy = FALSE, !.pc = "finally"]
               ELSE [loop EXCEPT !.last = "error", !.run_ret = "false",
                                 !.end_cause = "stop_exception",
                                 !.stop_exc = "caught_error",
                                 !.healthy = FALSE, !.pc = "finally"]
  /\ UNCHANGED <<appvars, w, stuck, title, restvars>>

\* step6_check_and_click_images 582-644: the first discovery
step6_check_and_click_images ==
  /\ loop.pc = "step6"
  /\ \/ /\ loop.stop_requested
        /\ loop' = Propagate(loop)
     \/ /\ loop.items = <<>>
        /\ loop' = [loop EXCEPT !.last = "warning", !.ret6 = "false",
                                !.end_cause = "no_candidates_first",
                                !.pc = "step6_done"]
     \/ /\ loop.items # <<>>
        /\ \/ loop' = [loop EXCEPT !.last = "info", !.pc = "before_loop"]
           \/ loop' = [loop EXCEPT !.last = "error", !.ret6 = "false",
                                   !.end_cause = "not_on_edit_page",
                                   !.healthy = FALSE, !.pc = "step6_done"]
  /\ UNCHANGED <<appvars, w, stuck, title, restvars>>

\* process_images_loop 660-675: load, settle, challenge check before the loop
process_images_loop_enter ==
  /\ loop.pc = "before_loop"
  /\ \/ loop' = [loop EXCEPT !.last = "error", !.ret6 = "false",
                             !.end_cause = "page_stuck", !.healthy = FALSE,
                             !.pc = "step6_done"]
     \/ \E o \in check_for_captcha(loop.stop_requested) :
          loop' = IF o = "raise_stop" THEN Propagate(loop)
                  ELSE IF o = "exhausted"
                  THEN [loop EXCEPT !.last = "error", !.ret6 = "None",
                                    !.end_cause = "captcha_exhausted",
                                    !.healthy = FALSE, !.pc = "step6_done"]
                  ELSE [loop EXCEPT !.pc = "top", !.healthy = @ /\ o = "clear"]
  /\ UNCHANGED <<appvars, w, stuck, title, restvars>>

\* process_images_loop 677-692: the next iteration, its stop check, and
\* whether the page is on an edit surface
process_images_loop_top ==
  /\ loop.pc = "top"
  /\ IF loop.i >= loop.repeat_count
     THEN loop' = [loop EXCEPT !.end_cause = "repeat_count", !.pc = "loop_end"]
     ELSE IF loop.stop_requested
     THEN loop' = Break(loop, "stop_loop_top", "warning")
     ELSE \/ /\ loop.i + 1 <= Len(loop.items)
             /\ loop' = [loop EXCEPT !.i = @ + 1, !.last = "info",
                                     !.abandoned = 0, !.pc = "form"]
          \/ loop' = [loop EXCEPT !.i = @ + 1, !.last = "info",
                                  !.abandoned = 0, !.pc = "rediscover"]
  /\ UNCHANGED <<appvars, w, stuck, title, restvars>>

\* process_images_loop 693-732: not on an edit surface, discover again
process_images_loop_rediscover ==
  /\ loop.pc = "rediscover"
  /\ \E o \in check_for_captcha(loop.stop_requested) :
       loop' = IF o = "raise_stop" THEN Propagate(loop)
               ELSE IF o = "exhausted"
               THEN [Break(loop, "captcha_exhausted", "error")
                       EXCEPT !.healthy = FALSE]
               ELSE IF loop.i <= Len(loop.items)
               THEN [loop EXCEPT !.last = "info", !.pc = "form",
                                 !.healthy = @ /\ o = "clear"]
               ELSE Break(loop, "no_candidates_later", "info")
  /\ UNCHANGED <<appvars, w, stuck, title, restvars>>

\* process_images_loop 734-750: the edit form appears, or the item is skipped
process_images_loop_wait_for_form ==
  /\ loop.pc = "form"
  /\ \/ loop' = [loop EXCEPT !.pc = "ident"]
     \/ loop' = [loop EXCEPT !.last = "warning", !.healthy = FALSE, !.pc = "top"]
     \/ /\ loop.stop_requested
        /\ loop' = Propagate(loop)
  /\ UNCHANGED <<appvars, w, stuck, title, restvars>>

\* The identifier of the opened item equals the one seen last (line 760).
IsDuplicate(l) ==
  /\ l.items[l.i] # ""
  /\ l.items[l.i] = l.last_image_id

\* The duplicate block with policy "stop" treated like a new identifier
process_images_loop_duplicate_check_never_stops ==
  /\ loop.pc = "ident"
  /\ loop' = [loop EXCEPT !.last_image_id = loop.items[loop.i],
                          !.retry_count = 0, !.last = "info", !.pc = "fill"]
  /\ UNCHANGED <<appvars, w, stuck, title, restvars>>

\* process_images_loop 752-781: the identifier and the duplicate policy.  The
\* block is inside `try ... except Exception` (780), which also catches the
\* StopRequestedException of the wait of line 770; the code then goes on with
\* line 783.
\* A variant that leaves retry_count alone when the item is not a duplicate.
process_images_loop_duplicate_check_keeps_retry_count ==
  /\ loop.pc = "ident"
  /\ IF IsDuplicate(loop) /\ loop.same_id_action = "stop"
     THEN loop' = [Break(loop, "duplicate_stop", "warning")
                     EXCEPT !.dup_i = loop.i, !.dup_count = loop.processed_count]
     ELSE IF IsDuplicate(loop) /\ loop.same_id_action = "skip"
     THEN \/ loop' =
               IF loop.retry_count + 1 >= MAX_RETRIES
               THEN [loop EXCEPT !.retry_count = 0, !.processed = @ + 1,
                                 !.dup_i = loop.i,
                                 !.last = "warning", !.pc = "top"]
               ELSE [loop EXCEPT !.retry_count = @ + 1, !.dup_i = loop.i,
                                 !.last = "warning", !.pc = "top"]
          \/ /\ loop.stop_requested
             /\ loop' = [loop EXCEPT !.stop_exc = "caught_warning",
                                     !.dup_i = loop.i,
                                     !.last = "warning", !.healthy = FALSE,
                                     !.pc = "fill"]
          \/ loop' = [loop EXCEPT !.dup_i = loop.i, !.last = "warning",
                                  !.healthy = FALSE, !.pc = "fill"]
     ELSE loop' = [loop EXCEPT !.last_image_id = loop.items[loop.i],
                               !.last = "info", !.pc = "fill"]
  /\ UNCHANGED <<appvars, w, stuck, title, restvars>>

process_images_loop_duplicate_check ==
  /\ loop.pc = "ident"
  /\ IF IsDuplicate(loop) /\ loop.same_id_action = "stop"
     THEN loop' = [Break(loop, "duplicate_stop", "warning")
                     EXCEPT !.dup_i = loop.i, !.dup_count = loop.processed_count]
     ELSE IF IsDuplicate(loop) /\ loop.same_id_action = "skip"
     THEN \/ loop' =
               IF loop.retry_count + 1 >= MAX_RETRIES
               THEN [loop EXCEPT !.retry_count = 0, !.processed = @ + 1,
                                 !.dup_i = loop.i,
                                 !.last = "warning", !.pc = "top"]
               ELSE [loop EXCEPT !.retry_count = @ + 1, !.dup_i = loop.i,
                                 !.last = "warning", !.pc = "top"]
          \/ /\ loop.stop_requested
             /\ loop' = [loop EXCEPT !.stop_exc = "caught_warning",
                                     !.dup_i = loop.i,
                                     !.last = "warning", !.healthy = FALSE,
                                     !.pc = "fill"]
          \/ loop' = [loop EXCEPT !.dup_i = loop.i, !.last = "warning",
                                  !.healthy = FALSE, !.pc = "fill"]
     ELSE loop' = [loop EXCEPT !.last_image_id = loop.items[loop.i],
                               !.retry_count = 0, !.last = "info", !.pc = "fill"]
  /\ UNCHANGED <<appvars, w, stuck, title, restvars>>

\* process_images_loop 783-865: title, description, template.  The waits of
\* lines 821, 849 and 865 are reached only when something has to be written.
\* A variant that goes from the fields straight to the submit control.
process_images_loop_fill_fields_then_submit ==
  /\ loop.pc = "fill"
  /\ \/ loop' = [loop EXCEPT !.pc = "submit"]
     \/ /\ ~loop.prefilled /\ loop.stop_requested
        /\ loop' = Propagate(loop)
     \/ loop' = LoopError(loop)
  /\ UNCHANGED <<appvars, w, stuck, title, restvars>>

process_images_loop_fill_fields ==
  /\ loop.pc = "fill"
  /\ \/ loop' = [loop EXCEPT !.pc = "pre_submit"]
     \/ /\ ~loop.prefilled /\ loop.stop_requested
        /\ loop' = Propagate(loop)
     \/ loop' = LoopError(loop)
  /\ UNCHANGED <<appvars, w, stuck, title, restvars>>

\* process_images_loop 870-873
process_images_loop_captcha_before_submit ==
  /\ loop.pc = "pre_submit"
  /\ \E o \in check_for_captcha(loop.stop_requested) :
       loop' = IF o = "raise_stop" THEN Propagate(loop)
               ELSE IF o = "exhausted"
               THEN [Break(loop, "captcha_exhausted", "error")
                       EXCEPT !.healthy = FALSE]
               ELSE [loop EXCEPT !.last = "info", !.pc = "submit",
                                 !.healthy = @ /\ o = "clear"]
  /\ UNCHANGED <<appvars, w, stuck, title, restvars>>

\* process_images_loop 875-915: the click on #submitbutton and the wait after
\* it, both inside `try ... except Exception` (886); then the 60-second
\* ceiling (890-912) and `if not submit_success: continue`.  `abandoned` is
\* the iteration just ended through the delete path, 0 if it did not.
process_images_loop_submit ==
  /\ loop.pc = "submit"
  /\ LET clicked == [loop EXCEPT !.clicks[loop.i] = @ + 1] IN
     \/ loop' = [clicked EXCEPT !.pc = "after_submit"]
     \/ loop' = [clicked EXCEPT !.last = "info", !.healthy = FALSE,
                                !.abandoned = loop.i, !.pc = "top"]
     \/ /\ loop.stop_requested
        /\ loop' = [clicked EXCEPT !.stop_exc = "caught_error", !.last = "error",
                                   !.healthy = FALSE, !.pc = "top"]
     \/ loop' = [loop EXCEPT !.last = "error", !.healthy = FALSE, !.pc = "top"]
     \/ loop' = [loop EXCEPT !.last = "info", !.healthy = FALSE,
                             !.abandoned = loop.i, !.pc = "top"]
  /\ UNCHANGED <<appvars, w, stuck, title, restvars>>

\* The counting of lines 922-924 without the write to successful_count
process_images_loop_after_submit_counts_processed_only ==
  /\ loop.pc = "after_submit"
  /\ loop' = [loop EXCEPT !.processed = @ + 1,
                          !.processed_count = loop.processed + 1,
                          !.last = "success", !.pc = "top"]
  /\ UNCHANGED <<appvars, w, stuck, title, restvars>>

\* process_images_loop 917-938: challenge check, the counters, the pacing waits
\* A variant whose state counters hold the items that remain.
process_images_loop_after_submit_counts_remaining ==
  /\ loop.pc = "after_submit"
  /\ LET counted == [loop EXCEPT !.processed = @ + 1,
                                 !.processed_count =
                                    loop.repeat_count - (loop.processed + 1),
                                 !.successful_count =
                                    loop.repeat_count - (loop.processed + 1),
                                 !.last = "success"]
     IN \E o \in check_for_captcha(loop.stop_requested) :
          IF o = "raise_stop" THEN loop' = Propagate(loop)
          ELSE IF o = "exhausted"
          THEN loop' = [Break(loop, "captcha_exhausted", "error")
                          EXCEPT !.healthy = FALSE]
          ELSE \/ loop' = [counted EXCEPT !.pc = "top",
                                          !.healthy = @ /\ o = "clear"]
               \/ /\ loop.stop_requested
                  /\ counted.processed < loop.repeat_count
                  /\ loop' = Propagate(counted)
  /\ UNCHANGED <<appvars, w, stuck, title, restvars>>

process_images_loop_after_submit ==
  /\ loop.pc = "after_submit"
  /\ LET counted == [loop EXCEPT !.processed = @ + 1,
                                 !.processed_count = loop.processed + 1,
                                 !.successful_count = loop.processed + 1,
                                 !.last = "success"]
     IN \E o \in check_for_captcha(loop.stop_requested) :
          IF o = "raise_stop" THEN loop' = Propagate(loop)
          ELSE IF o = "exhausted"
          THEN loop' = [Break(loop, "captcha_exhausted", "error")
                          EXCEPT !.healthy = FALSE]
          ELSE \/ loop' = [counted EXCEPT !.pc = "top",
                                          !.healthy = @ /\ o = "clear"]
               \/ /\ loop.stop_requested
                  /\ counted.processed < loop.repeat_count
                  /\ loop' = Propagate(counted)
  /\ UNCHANGED <<appvars, w, stuck, title, restvars>>

\* process_images_loop 940-941 and step6 646: the summary, return True
process_images_loop_return ==
  /\ loop.pc = "loop_end"
  /\ loop' = [loop EXCEPT !.last = "success", !.ret6 = "true",
                          !.pc = "step6_done"]
  /\ UNCHANGED <<appvars, w, stuck, title, restvars>>

\* run() 1194-1208: what step 6 returned or raised
run_step6_result ==
  /\ loop.pc = "step6_done"
  /\ loop' = IF loop.ret6 = "true"
             THEN [loop EXCEPT !.last = "success", !.run_ret = "true",
                               !.pc = "finally"]
             ELSE IF loop.ret6 = "raise_stop"
             THEN [loop EXCEPT !.last = "warning", !.run_ret = "false",
                               !.pc = "finally"]
             ELSE [loop EXCEPT !.last = "error", !.run_ret = "false",
                               !.pc = "finally"]
  /\ UNCHANGED <<appvars, w, stuck, title, restvars>>

\* run() 1217-1221 with close() 1246
run_close ==
  /\ loop.pc = "finally"
  /\ loop' = [loop EXCEPT !.last = "success", !.pc = "roll_up"]
  /\ UNCHANGED <<appvars, w, stuck, title, restvars>>

\* app.py 79-84: the status the controller gives the run
run_automation_roll_up ==
  /\ loop.pc = "roll_up"
  /\ loop' = [loop EXCEPT !.status = IF loop.run_ret = "true" THEN "completed"
                                     ELSE "failed",
                          !.pc = "done"]
  /\ UNCHANGED <<appvars, w, stuck, title, restvars>>

\* automation.py 1223-1226, from the controller's thread, while run() runs
StopDuringRun ==
  /\ loop.pc \notin {"idle", "finally", "roll_up", "done"}
  /\ ~loop.stop_requested
  /\ loop' = [loop EXCEPT !.stop_requested = TRUE, !.last = "warning"]
  /\ UNCHANGED <<appvars, w, stuck, title, restvars>>

NextLoop ==
  \/ run_stop_check
  \/ step5_click_upload_button
  \/ step6_check_and_click_images
  \/ process_images_loop_enter
  \/ process_images_loop_top
  \/ process_images_loop_rediscover
  \/ process_images_loop_wait_for_form
  \/ process_images_loop_duplicate_check
  \/ process_images_loop_fill_fields
  \/ process_images_loop_captcha_before_submit
  \/ process_images_loop_submit
  \/ process_images_loop_after_submit
  \/ process_images_loop_return
  \/ run_step6_result
  \/ run_close
  \/ run_automation_roll_up
  \/ StopDuringRun

SpecLoop == InitLoop /\ [][NextLoop]_vars

LoopOver == loop.pc \in {"loop_end", "step6_done", "finally", "roll_up", "done"}

StopCauses == {"stop_boundary", "stop_loop_top", "stop_exception"}

(* C11: with duplicate policy stop, an opened item whose non-empty
   identifier equals last_image_id ends the item loop at once: no click on
   the submit control for that item, no later item opened, processed_count
   as it was before the duplicate, and the run ends completed. *)
C11_DuplicateStopEndsLoop ==
  /\ [][(/\ loop.pc = "ident" /\ loop'.pc # "ident"
         /\ loop.same_id_action = "stop" /\ IsDuplicate(loop))
          => /\ loop'.pc = "loop_end"
             /\ loop'.i = loop.i
             /\ loop'.clicks = loop.clicks /\ loop.clicks[loop.i] = 0
             /\ loop'.processed_count = loop.processed_count]_vars
  /\ [](loop.end_cause = "duplicate_stop" =>
          /\ LoopOver
          /\ loop.i = loop.dup_i /\ loop.clicks[loop.i] = 0
          /\ loop.processed_count = loop.dup_count
          /\ loop.ret6 \in {"none", "true"} /\ loop.run_ret \in {"none", "true"}
          /\ loop.pc = "done" => loop.status = "completed")

\* Items [A, A, ...] with policy stop: A was submitted once and counted, its
\* second showing ended the run, completed, with that count.
C11_Witness ==
  /\ loop.pc = "done" /\ loop.end_cause = "duplicate_stop"
  /\ loop.same_id_action = "stop"
  /\ loop.i = 2 /\ loop.items[1] = loop.items[2]
  /\ loop.clicks[1] = 1 /\ loop.clicks[2] = 0
  /\ loop.processed_count = 1 /\ loop.status = "completed"

(* C12: with duplicate policy skip, the duplicate at which the retry counter
   reaches MAX_RETRIES increments state.processed_count and resets the
   counter. *)
C12_ForcedCountAtMaxRetries ==
  [][(/\ loop.pc = "ident" /\ loop'.pc = "top"
      /\ loop.same_id_action = "skip" /\ IsDuplicate(loop)
      /\ loop.retry_count + 1 >= MAX_RETRIES)
       => /\ loop'.processed_count = loop.processed_count + 1
          /\ loop'.retry_count = 0]_vars

(* C14: repeatCount 2, two distinct items with title and description filled,
   template none, a healthy page and no stop request: the run ends with
   processed_count = 2, successful_count = 2, one click on the submit control
   per item, a last progress event of severity success, status completed. *)
C14_TwoItemsScenario ==
  (/\ loop.pc = "done"
   /\ loop.repeat_count = 2 /\ loop.prefilled
   /\ Len(loop.items) = 2 /\ loop.items[1] # loop.items[2]
   /\ loop.healthy /\ ~loop.stop_requested)
    => /\ loop.processed_count = 2 /\ loop.successful_count = 2
       /\ loop.clicks[1] = 1 /\ loop.clicks[2] = 1
       /\ \A k \in 3..MaxItems : loop.clicks[k] = 0
       /\ loop.last = "success"
       /\ loop.run_ret = "true" /\ loop.status = "completed"

\* That scenario has run to its end.
C14_Witness ==
  /\ loop.pc = "done"
  /\ loop.repeat_count = 2 /\ loop.prefilled
  /\ loop.items = <<"A", "B">>
  /\ loop.healthy /\ ~loop.stop_requested
  /\ loop.processed_count = 2 /\ loop.end_cause = "repeat_count"

(* C15: a run that ended because the stop signal was observed (at a step
   boundary, at the top of the item loop, or through a
   StopRequestedException) is rolled up to a status that is neither failed
   nor error. *)
C15_StopIsNotFailure ==
  (loop.pc = "done" /\ loop.end_cause \in StopCauses)
    => loop.status \notin {"failed", "error"}

(* C16: every StopRequestedException raised in a phase propagates to run();
   none is caught by a generic exception handler on the way. *)
C16_StopExceptionPropagates ==
  loop.stop_exc \in {"none", "propagated"}

(* C17: when discovery finds no candidate, at the first discovery or inside
   the item loop, run() returns true and the status is completed. *)
C17_NothingToDoCompletes ==
  (loop.pc = "done"
   /\ loop.end_cause \in {"no_candidates_first", "no_candidates_later"})
    => loop.run_ret = "true" /\ loop.status = "completed"

(* C18: once challenge handling is exhausted, no further item is opened and
   the run ends failed: run() returns false. *)
C18_ChallengeExhaustedIsFatal ==
  loop.end_cause = "captcha_exhausted" =>
    /\ loop.pc \in {"loop_end", "step6_done", "finally", "roll_up", "done"}
    /\ loop.run_ret # "true"
    /\ loop.pc = "done" => loop.status = "failed"

\* The causes of the loop's end that C22 lists besides the count.
ListedCauses ==
  StopCauses \cup {"no_candidates_first", "no_candidates_later",
                   "duplicate_stop", "captcha_exhausted",
                   "not_on_edit_page", "page_stuck"}

\* C22: when the item loop has ended, the processed count equals
\* repeat_count, or stop was requested, or discovery found no item, or the
\* duplicate policy stop was triggered, or a challenge or guard failure
\* was unresolved: an item left without being counted does not use up
\* the quota.
C22_LoopEndsForListedCause ==
  loop.pc = "loop_end" =>
    \/ loop.processed = loop.repeat_count
    \/ loop.processed_count = loop.repeat_count
    \/ loop.stop_requested
    \/ loop.end_cause \in ListedCauses

\* C23: the item of an iteration that ended through the delete path of
\* the 60-second ceiling has not had its submit control clicked, and the
\* iteration did not change the counts.
C23_AbandonedItemNotSubmitted ==
  /\ [](loop.abandoned # 0 => loop.clicks[loop.abandoned] = 0)
  /\ [][loop'.abandoned # 0 /\ loop.abandoned = 0 =>
          /\ loop'.processed = loop.processed
          /\ loop'.processed_count = loop.processed_count
          /\ loop'.successful_count = loop.successful_count]_vars

\* C24: the submit control is reached only from the challenge detection
\* before it, which is reached only from the field population; the
\* submit control is clicked nowhere else; and when that detection is
\* exhausted the loop ends without a click and no iteration follows.
C24_ChallengeCheckedBeforeSubmit ==
  /\ [][loop'.pc = "submit" /\ loop.pc # "submit" =>
          loop.pc = "pre_submit"]_vars
  /\ [][loop'.pc = "pre_submit" /\ loop.pc # "pre_submit" =>
          loop.pc = "fill"]_vars
  /\ [][loop'.clicks # loop.clicks => loop.pc = "submit"]_vars
  /\ [][loop.pc = "pre_submit" /\ loop'.end_cause = "captcha_exhausted" =>
          loop'.pc = "loop_end" /\ loop'.clicks = loop.clicks]_vars
  /\ [][LoopOver => LoopOver' /\ loop'.i = loop.i /\
                    loop'.clicks = loop.clicks]_vars

\* The detection before the submit of the second item was exhausted: the
\* first item was submitted, the second was not, and the loop has ended.
C24_Witness ==
  /\ loop.pc = "loop_end"
  /\ loop.end_cause = "captcha_exhausted"
  /\ loop.i = 2
  /\ loop.clicks[1] = 1
  /\ loop.clicks[2] = 0

\* C30: no step of a run lowers state.processed_count or
\* state.successful_count.
C30_CountsNeverDecrease ==
  [][/\ loop'.processed_count >= loop.processed_count
     /\ loop'.successful_count >= loop.successful_count]_vars

\* After one submission, three further occurrences of the same
\* identifier ended in a forced count: the local count is 2 and the two
\* state counters still hold 1.
C30_Witness ==
  /\ loop.processed = 2
  /\ loop.processed_count = 1
  /\ loop.successful_count = 1
  /\ loop.i = 4
  /\ loop.pc = "top"

\* C31: at the top of every iteration retry_count is from 0 to
\* MAX_RETRIES - 1; when the identifier read for the opened item differs
\* from last_image_id, retry_count becomes 0 and last_image_id becomes
\* that identifier; a duplicate leaves last_image_id as it is, and
\* nothing else changes it.
C31_RetryCountBounded ==
  /\ [](loop.pc = "top" => loop.retry_count \in 0..(MAX_RETRIES - 1))
  /\ [][loop.pc = "ident" /\ loop'.pc # "ident" /\ ~IsDuplicate(loop) =>
          /\ loop'.retry_count = 0
          /\ loop'.last_image_id = loop.items[loop.i]]_vars
  /\ [][loop.pc # "ident" \/ IsDuplicate(loop) =>
          loop'.last_image_id = loop.last_image_id]_vars

\* Under the policy skip the second item repeated the first and the
\* third did not: its identifier was recorded and retry_count is 0 again.
C31_Witness ==
  /\ loop.pc = "fill" /\ loop.i = 3
  /\ loop.same_id_action = "skip"
  /\ loop.items[1] = loop.items[2] /\ loop.items[3] # loop.items[2]
  /\ loop.last_image_id = loop.items[3]
  /\ loop.retry_count = 0
  /\ loop.stop_exc = "none"

\* C35: when stop is not requested, the field population of an item is
\* followed by the challenge detection or by the next iteration: an
\* exception raised in it does not end the loop.
C35_ItemExceptionDoesNotEndLoop ==
  [][loop.pc = "fill" /\ loop'.pc # "fill" /\ ~loop.stop_requested =>
       loop'.pc \in {"pre_submit", "top"}]_vars

\* C38: under the policy skip the submit control is not clicked in an
\* iteration whose item was detected as a duplicate.
C38_DuplicateNeverSubmitted ==
  [][loop'.clicks # loop.clicks =>
       ~(loop.same_id_action = "skip" /\ loop.dup_i = loop.i)]_vars

RECURSIVE SumTo(_, _)
SumTo(f, n) == IF n = 0 THEN 0 ELSE f[n] + SumTo(f, n - 1)

\* C39: between iterations and at the end of the run, successful_count
\* is the number of clicks on the submit control.
C39_SuccessesAreSubmits ==
  loop.pc \in {"top", "loop_end", "done"} =>
    loop.successful_count = SumTo(loop.clicks, MaxItems)

\* C40: the submit control is not clicked once a wait of the loop has
\* raised the stop exception.
C40_NoSubmitAfterStopRaised ==
  [][loop'.clicks # loop.clicks => loop.stop_exc = "none"]_vars

\* ---------------------------------------------------------------------
\* Counting and pacing after a successful submission
\* (process_images_loop, the tail of one iteration; DelayCalculator)
\* ---------------------------------------------------------------------

MaxPauseAfter == 2

DelayOptions == {"fast", "slow"}

PauseDurations == {1, DEFAULT_PAUSE_DURATION}

\* A variant that draws from one range whatever the mode.
calculate_ignores_mode(delay_option) == 5..15

\* DelayCalculator.calculate: random.randint is inclusive at both ends.
calculate(delay_option) ==
  IF delay_option = "slow" THEN 10..15 ELSE 5..10

InitPace ==
  /\ InitApp
  /\ cfg = [credentials |-> TRUE, REQUIRE_API_KEY |-> FALSE, API_KEY |-> "",
            entry |-> "app"]
  /\ tpc = [t \in Threads |-> "none"]
  /\ bot = [t \in Threads |-> NewBot(FALSE)]
  /\ w = WaitIdle
  /\ loop = [pc |-> "idle"]
  /\ stuck = [pc |-> "idle"]
  /\ title = [pc |-> "idle"]
  /\ fill = [pc |-> "idle"]
  /\ nav = [pc |-> "idle"]
  /\ \E rc \in 1..MaxRepeat, pa \in 0..MaxPauseAfter,
        pd \in PauseDurations, d \in DelayOptions :
       pace = [pc |-> "next", delay |-> d, repeat_count |-> rc,
               pause_after |-> pa, pause_duration |-> pd,
               i |-> 0, processed |-> 0,
               processed_count |-> 0, successful_count |-> 0,
               delay_seconds |-> 0, wait_ms |-> 0,
               stop_requested |-> FALSE]

\* for i in range(repeat_count): an iteration either reaches the count
\* after a submission, ends early without counting, or ends early on
\* the duplicate path that counts the item without submitting it.
process_images_loop_next_item ==
  /\ pace.pc = "next"
  /\ IF pace.i >= pace.repeat_count
     THEN pace' = [pace EXCEPT !.pc = "done"]
     ELSE IF pace.stop_requested
     THEN pace' = [pace EXCEPT !.pc = "stopped"]
     ELSE \/ pace' = [pace EXCEPT !.i = @ + 1, !.pc = "submitted"]
          \/ pace' = [pace EXCEPT !.i = @ + 1]
          \/ pace' = [pace EXCEPT !.i = @ + 1, !.processed = @ + 1]
  /\ UNCHANGED <<appvars, w, loop, stuck, title, fill, nav>>

\* processed += 1 and the two counters of the state.
process_images_loop_count_submission ==
  /\ pace.pc = "submitted"
  /\ pace' = [pace EXCEPT !.processed = @ + 1,
                          !.processed_count = pace.processed + 1,
                          !.successful_count = pace.processed + 1,
                          !.pc = "delay"]
  /\ UNCHANGED <<appvars, w, loop, stuck, title, fill, nav>>

\* if processed < repeat_count: sample the delay and start the wait.
process_images_loop_apply_delay ==
  /\ pace.pc = "delay"
  /\ IF pace.processed < pace.repeat_count
     THEN \E delay_seconds \in calculate(pace.delay) :
            pace' = [pace EXCEPT !.delay_seconds = delay_seconds,
                                 !.wait_ms = delay_seconds * 1000,
                                 !.pc = "delay_wait"]
     ELSE pace' = [pace EXCEPT !.delay_seconds = 0, !.pc = "pause"]
  /\ UNCHANGED <<appvars, w, loop, stuck, title, fill, nav>>

\* safe_wait of the delay: returns, or raises once stop is requested.
process_images_loop_delay_wait ==
  /\ pace.pc = "delay_wait"
  /\ \/ pace' = [pace EXCEPT !.wait_ms = 0, !.pc = "pause"]
     \/ /\ pace.stop_requested
        /\ pace' = [pace EXCEPT !.wait_ms = 0, !.pc = "stopped"]
  /\ UNCHANGED <<appvars, w, loop, stuck, title, fill, nav>>

\* A variant whose pause does not look at the items that remain.
process_images_loop_check_pause_after_last_item ==
  /\ pace.pc = "pause"
  /\ IF /\ pace.pause_after > 0
        /\ pace.processed % pace.pause_after = 0
     THEN pace' = [pace EXCEPT !.wait_ms = pace.pause_duration * 1000,
                               !.pc = "pause_wait"]
     ELSE pace' = [pace EXCEPT !.pc = "next"]
  /\ UNCHANGED <<appvars, w, loop, stuck, title, fill, nav>>

\* if pause_after > 0 and processed % pause_after == 0
\*    and processed < repeat_count: start the pause.
process_images_loop_check_pause ==
  /\ pace.pc = "pause"
  /\ IF /\ pace.pause_after > 0
        /\ pace.processed % pace.pause_after = 0
        /\ pace.processed < pace.repeat_count
     THEN pace' = [pace EXCEPT !.wait_ms = pace.pause_duration * 1000,
                               !.pc = "pause_wait"]
     ELSE pace' = [pace EXCEPT !.pc = "next"]
  /\ UNCHANGED <<appvars, w, loop, stuck, title, fill, nav>>

\* safe_wait of the pause: returns, or raises once stop is requested.
process_images_loop_pause_wait ==
  /\ pace.pc = "pause_wait"
  /\ \/ pace' = [pace EXCEPT !.wait_ms = 0, !.pc = "next"]
     \/ /\ pace.stop_requested
        /\ pace' = [pace EXCEPT !.wait_ms = 0, !.pc = "stopped"]
  /\ UNCHANGED <<appvars, w, loop, stuck, title, fill, nav>>

\* stop() called from the request thread while the loop runs.
StopDuringPacing ==
  /\ pace.pc \notin {"idle", "done", "stopped"}
  /\ ~pace.stop_requested
  /\ pace' = [pace EXCEPT !.stop_requested = TRUE]
  /\ UNCHANGED <<appvars, w, loop, stuck, title, fill, nav>>

NextPace ==
  \/ process_images_loop_next_item
  \/ process_images_loop_count_submission
  \/ process_images_loop_apply_delay
  \/ process_images_loop_delay_wait
  \/ process_images_loop_check_pause
  \/ process_images_loop_pause_wait
  \/ StopDuringPacing

SpecPace == InitPace /\ [][NextPace]_vars

PauseDue == pace.pause_after > 0 /\ pace.processed % pace.pause_after = 0

\* C28 (as stated): at the pause check after a successful submission
\* the run starts a sleep of pauseDuration seconds exactly when
\* pauseAfter > 0 and the processed count is a multiple of pauseAfter;
\* with pauseAfter = 0 it never pauses.
C28_PauseAfterEveryMultiple ==
  [][pace.pc = "pause" /\ pace'.pc # "pause" =>
       IF PauseDue
       THEN pace'.pc = "pause_wait" /\
            pace'.wait_ms = pace.pause_duration * 1000
       ELSE pace'.pc = "next"]_vars

\* C28 (amended): the sleep starts exactly when, in addition, the
\* processed count is below repeatCount; the sleep ends early with the
\* stop exception only if stop was requested; with pauseAfter = 0 the
\* run never pauses.
C28_PauseWhileItemsRemain ==
  /\ [][pace.pc = "pause" /\ pace'.pc # "pause" =>
          IF PauseDue /\ pace.processed < pace.repeat_count
          THEN pace'.pc = "pause_wait" /\
               pace'.wait_ms = pace.pause_duration * 1000
          ELSE pace'.pc = "next"]_vars
  /\ [][pace.pc = "pause_wait" /\ pace'.pc = "stopped" =>
          pace.stop_requested]_vars
  /\ [](pace.pc = "pause_wait" => pace.pause_after > 0)

\* The run is pausing after its second submission of four.
C28_Witness ==
  /\ pace.pc = "pause_wait"
  /\ pace.pause_after = 2
  /\ pace.processed = 2
  /\ pace.repeat_count = 4
  /\ pace.wait_ms = DEFAULT_PAUSE_DURATION * 1000

\* ---------------------------------------------------------------------
\* The fields of each item from its opening to its submission
\* (process_images_loop, lines 752-888)
\* ---------------------------------------------------------------------

MaxFillItems == 2

strip(s) == LStrip(RStrip(s))

\* The text of #js-originalfilename; present is FALSE when the page has
\* no such element.
NoIdentifier == [present |-> FALSE, text |-> <<>>]

ItemIdentifiers ==
  {NoIdentifier} \cup {[present |-> TRUE, text |-> t] : t \in {<<"a">>, <<"b">>}}

\* 120 characters with a colon before and a colon after the 115th.
LongDescription == [n \in 1..120 |-> IF n \in {2, 116} THEN ":" ELSE "x"]

TitleValues == {<<>>, <<" ">>, <<"T", ":">>}

DescriptionValues == {<<>>, <<"d", ":", "e">>, LongDescription}

FillItems == [id : ItemIdentifiers, title : TitleValues, desc : DescriptionValues]

FillItemSequences == UNION {[1..n -> FillItems] : n \in 1..MaxFillItems}

ManualDescriptions == {<<>>, <<"m">>}

\* "AI Generated Image "
FallbackTitlePrefix ==
  <<"A", "I", " ", "G", "e", "n", "e", "r", "a", "t", "e", "d", " ",
    "I", "m", "a", "g", "e", " ">>

\* "AI generated digital artwork, high quality image"
FallbackDescription ==
  <<"A", "I", " ", "g", "e", "n", "e", "r", "a", "t", "e", "d", " ",
    "d", "i", "g", "i", "t", "a", "l", " ", "a", "r", "t", "w", "o",
    "r", "k", ",", " ", "h", "i", "g", "h", " ", "q", "u", "a", "l",
    "i", "t", "y", " ", "i", "m", "a", "g", "e">>

\* str(n) for the indices the model uses.
IndexText(n) == <<(<<"1", "2", "3", "4", "5", "6", "7", "8", "9">>)[n]>>

\* Two of the texts of TemplateManager.TEMPLATE2.
TEMPLATE2 ==
  {
    <<",", " ", "b", "o", "l", "d", " ", "a", "p", "p", "e", "a",
      "r", "a", "n", "c", "e">>,
    <<",", " ", "c", "o", "o", "l", " ", "t", "o", "n", "e", "s">>
  }

\* TemplateManager.get_random_text: the texts random.choice draws from.
get_random_text(template_name) ==
  IF template_name = "template2" THEN TEMPLATE2 ELSE {<<>>}

AiCategory == "172"

AiSubcategory == "212"

\* process_ai_image: sets the two category codes when ai_image is "yes".
\* No step of run() and no line of process_images_loop calls it.
process_ai_image(f) ==
  IF f.ai_image # "yes" THEN f
  ELSE [f EXCEPT !.category = AiCategory, !.subcategory = AiSubcategory]

\* step7_copy_description_to_title, its manual description part.
\* No step of run() and no line of process_images_loop calls it.
enhanced_desc(current_desc, manual_description) ==
  IF strip(manual_description) = <<>> THEN current_desc
  ELSE IF current_desc # <<>> THEN current_desc \o <<" ">> \o manual_description
  ELSE manual_description

InitFill ==
  /\ InitApp
  /\ cfg = [credentials |-> TRUE, REQUIRE_API_KEY |-> FALSE, API_KEY |-> "",
            entry |-> "app"]
  /\ tpc = [t \in Threads |-> "none"]
  /\ bot = [t \in Threads |-> NewBot(FALSE)]
  /\ w = WaitIdle
  /\ loop = [pc |-> "idle"]
  /\ stuck = [pc |-> "idle"]
  /\ title = [pc |-> "idle"]
  /\ pace = [pc |-> "idle"]
  /\ nav = [pc |-> "idle"]
  /\ \E its \in FillItemSequences, m \in ManualDescriptions,
        ai \in {"yes", "no"}, t \in {"none", "template2"},
        action \in {"skip", "stop"} :
       fill = [pc |-> "open", items |-> its, repeat_count |-> Len(its),
               manual_description |-> m, ai_image |-> ai, template |-> t,
               same_id_action |-> action,
               i |-> 0, bound |-> FALSE, current_image_id |-> <<>>,
               last_image_id |-> <<>>,
               form |-> [title |-> <<>>, desc |-> <<>>],
               category |-> "", subcategory |-> "",
               submitted |-> <<>>]

\* for i in range(repeat_count): the edit page shows the next item.
\* fill.i counts the iterations started, so Python's i + 1 is fill.i.
process_images_loop_open_item ==
  /\ fill.pc = "open"
  /\ IF fill.i >= fill.repeat_count
     THEN fill' = [fill EXCEPT !.pc = "done"]
     ELSE fill' = [fill EXCEPT !.i = @ + 1,
                               !.form = [title |-> fill.items[fill.i + 1].title,
                                         desc |-> fill.items[fill.i + 1].desc],
                               !.category = "", !.subcategory = "",
                               !.pc = "ident"]
  /\ UNCHANGED <<appvars, w, loop, stuck, title, pace, nav>>

\* Lines 752-781: current_image_id is assigned only when the element is
\* there; a local variable keeps its value from one iteration to the next.
process_images_loop_read_identifier ==
  /\ fill.pc = "ident"
  /\ LET id == fill.items[fill.i].id IN
     IF ~id.present
     THEN fill' = [fill EXCEPT !.pc = "populate"]
     ELSE LET read == [fill EXCEPT !.bound = TRUE,
                                   !.current_image_id = id.text]
          IN IF id.text # <<>> /\ id.text = fill.last_image_id
             THEN fill' = [read EXCEPT !.pc = IF fill.same_id_action = "stop"
                                              THEN "done" ELSE "open"]
             ELSE fill' = [read EXCEPT !.last_image_id = id.text,
                                       !.pc = "populate"]
  /\ UNCHANGED <<appvars, w, loop, stuck, title, pace, nav>>

\* Lines 783-849: the title and the description written into the form.
process_images_loop_populate_fields ==
  /\ fill.pc = "populate"
  /\ LET title_value == fill.form.title
         desc_value == fill.form.desc
         first ==
           IF strip(title_value) # <<>> THEN fill.form
           ELSE IF strip(desc_value) # <<>>
           THEN [title |-> Prefix(replace(desc_value, ":", <<",">>), TitleLimit),
                 desc |-> desc_value]
           ELSE [title |-> FallbackTitlePrefix \o
                             (IF fill.bound THEN fill.current_image_id
                              ELSE IndexText(fill.i)),
                 desc |-> FallbackDescription]
         second ==
           IF strip(first.title) = <<>> /\ strip(first.desc) # <<>>
           THEN [first EXCEPT !.title =
                   Prefix(replace(first.desc, ":", <<",">>), TitleLimit)]
           ELSE first
     IN fill' = [fill EXCEPT !.form = second, !.pc = "template"]
  /\ UNCHANGED <<appvars, w, loop, stuck, title, pace, nav>>

\* Lines 851-865: a template text appended to the description.
process_images_loop_add_template ==
  /\ fill.pc = "template"
  /\ IF fill.template # "none"
     THEN \E template_text \in get_random_text(fill.template) :
            fill' = [fill EXCEPT !.form.desc =
                                    IF template_text # <<>>
                                    THEN @ \o template_text ELSE @,
                                 !.pc = "pre_submit"]
     ELSE fill' = [fill EXCEPT !.pc = "pre_submit"]
  /\ UNCHANGED <<appvars, w, loop, stuck, title, pace, nav>>

\* Lines 867-888: "Skip category checks", then the click on
\* #submitbutton, or no click when the button is not found.
process_images_loop_click_submit ==
  /\ fill.pc = "pre_submit"
  /\ \/ fill' = [fill EXCEPT
                   !.submitted = Append(@, [item |-> fill.i,
                                            title |-> fill.form.title,
                                            desc |-> fill.form.desc,
                                            category |-> fill.category,
                                            subcategory |-> fill.subcategory]),
                   !.pc = "open"]
     \/ fill' = [fill EXCEPT !.pc = "open"]
  /\ UNCHANGED <<appvars, w, loop, stuck, title, pace, nav>>

NextFill ==
  \/ process_images_loop_open_item
  \/ process_images_loop_read_identifier
  \/ process_images_loop_populate_fields
  \/ process_images_loop_add_template
  \/ process_images_loop_click_submit

SpecFill == InitFill /\ [][NextFill]_vars

\* The identifier, or failing it the index, of the n-th item.
IdentifierOrIndex(n) ==
  IF fill.items[n].id.present THEN fill.items[n].id.text ELSE IndexText(n)

StartsWith(s, p) == Len(s) >= Len(p) /\ SubSeq(s, 1, Len(p)) = p

\* C25: every submitted item has: its own title if that was not blank;
\* otherwise its description with ':' replaced by ',' and cut to 115
\* characters if that was not blank; otherwise the title
\* 'AI Generated Image ' followed by its own identifier, or by its index
\* when it has none, and a description that begins with the fixed
\* sentence.
C25_TitlePrecedence ==
  \A n \in 1..Len(fill.submitted) :
    LET e == fill.submitted[n]
        it == fill.items[e.item]
    IN IF strip(it.title) # <<>> THEN e.title = it.title
       ELSE IF strip(it.desc) # <<>>
       THEN e.title = Prefix(replace(it.desc, ":", <<",">>), TitleLimit)
       ELSE /\ e.title = FallbackTitlePrefix \o IdentifierOrIndex(e.item)
            /\ StartsWith(e.desc, FallbackDescription)

\* s holds the suffix m, after a space unless it begins s.
HasSuffixJoined(s, m) ==
  \E p \in 0..(Len(s) - Len(m)) :
    /\ SubSeq(s, p + 1, p + Len(m)) = m
    /\ p > 0 => s[p] = " "

\* C26: with a non-empty manual description, the description of every
\* submitted item holds that text, joined by a space.
C26_ManualSuffixAppended ==
  fill.manual_description # <<>> =>
    \A n \in 1..Len(fill.submitted) :
      HasSuffixJoined(fill.submitted[n].desc, fill.manual_description)

\* C27: with ai_image "yes", every submitted item was submitted with the
\* category and the subcategory set to the two fixed codes.
C27_AiItemsCategorized ==
  fill.ai_image = "yes" =>
    \A n \in 1..Len(fill.submitted) :
      /\ fill.submitted[n].category = AiCategory
      /\ fill.submitted[n].subcategory = AiSubcategory

\* ---------------------------------------------------------------------
\* The order of the phases of run() and the report of a failed phase
\* ---------------------------------------------------------------------

\* Thread t leaves the phase it is in with run() returning False:
\* credential validation, session setup or a step returned false or
\* raised.
PhaseFails(t) ==
  /\ tpc[t] \in {"run", "setup", "in_step"}
  /\ tpc'[t] = "finally"
  /\ tret'[t] = "false"

\* The event that ends progress' is an error that names the phase
\* thread t was in: for a step the name of its function; for credential
\* validation and session setup any error event is accepted.
FailureNamesPhase(t) ==
  /\ progress' # <<>>
  /\ progress'[Len(progress')].status = "error"
  /\ tpc[t] = "in_step" =>
       progress'[Len(progress')].message =
         "Automation stopped at " \o StepNames[tk[t]]

\* The order of the phases for thread t and the halt after a failure.
PhaseOrder(t) ==
  /\ tpc'[t] = "setup" /\ tpc[t] # "setup" =>
       tpc[t] = "run" /\ validate_credentials
  /\ tpc'[t] = "in_step" /\ tpc[t] # "in_step" =>
       /\ tpc[t] = "step_check"
       /\ ~bot[t].stop_requested
       /\ tk'[t] = tk[t] /\ tk[t] \in 1..NumSteps
  /\ tpc'[t] = "step_check" /\ tpc[t] # "step_check" =>
       \/ tpc[t] = "setup" /\ tk'[t] = 1
       \/ tpc[t] = "in_step" /\ tk'[t] = tk[t] + 1
  /\ tpc[t] = "finally" =>
       tpc'[t] \notin {"run", "setup", "step_check", "in_step"}

\* The event that ends progress' is the warning run() logs when a step
\* raises StopRequestedException, and stop had been requested.
StopRaiseReported(t) ==
  /\ tpc[t] = "in_step"
  /\ bot[t].stop_requested
  /\ progress' # <<>>
  /\ progress'[Len(progress')] =
       Ev(-1, "Automation stopped by user during execution", "warning")

\* C29 (as stated): session setup starts only after credential
\* validation succeeded; step k starts only from the stop check before
\* it, with stop not requested, after session setup and steps 1..k-1
\* succeeded, in the order step1..step6; once run() has left a phase
\* with a failure no phase starts; and a phase that returns false or
\* raises is reported by an error event that names it.
C29_PhasesInOrderAndNamed ==
  [][\A t \in Threads :
       /\ PhaseOrder(t)
       /\ PhaseFails(t) /\ bot[t].cb => FailureNamesPhase(t)]_vars

\* C29 (amended): the same order and halt; a phase that returns false
\* is reported by an error event, which for a step names the step; a
\* step that raises the stop exception is reported by the warning
\* 'Automation stopped by user during execution'.
C29_PhasesInOrderFailureReported ==
  [][\A t \in Threads :
       /\ PhaseOrder(t)
       /\ PhaseFails(t) /\ bot[t].cb =>
            FailureNamesPhase(t) \/ StopRaiseReported(t)]_vars

\* Step 5 returned false after setup and steps 1..4 succeeded: run() has
\* reported it by name and is about to close.
C29_Witness ==
  \E t \in Threads :
    /\ tpc[t] = "finally" /\ tret[t] = "false" /\ tk[t] = 5
    /\ bot[t].cb /\ ~bot[t].stop_requested
    /\ progress # <<>>
    /\ progress[Len(progress)] =
         Ev(-1, "Automation stopped at step5_click_upload_button", "error")

\* ---------------------------------------------------------------------
\* The stored status after a run has ended
\* ---------------------------------------------------------------------

RollUps == {"completed", "failed", "error"}

\* Some run started through the web application has ended and no run is
\* under way.
RunEnded ==
  /\ cfg.entry = "app"
  /\ ~running
  /\ ActiveRuns = {}
  /\ \E t \in Threads : tpc[t] \in {"clear_bot", "done"}

\* C37: once a run has ended and running is false, the stored status is
\* completed, failed or error, and it stays as it is for as long as no
\* run is under way.
C37_StatusKeptAfterRun ==
  /\ [](RunEnded => status \in RollUps)
  /\ [][RunEnded /\ ActiveRuns' = {} => status' = status]_vars

\* ---------------------------------------------------------------------
\* Step 1: the navigation, the challenge check and the page refresh
\* ---------------------------------------------------------------------

\* automation.py 167: for attempt in range(60)
PollCeiling == 60
\* automation.py 171: safe_wait(self.page, 5000, ...)
PollWaitMs == 5000
\* automation.py 204 and 207: time.sleep(0.5), time.sleep(0.3)
FocusSleepMs == 500
TabSleepMs == 300
\* automation.py 209-210: max_hold = 15.0, check_interval = 0.5 (seconds)
max_hold == 15000
check_interval == 500
\* automation.py 304: safe_wait(self.page, 3000, ...)
RefreshWaitMs == 3000
\* automation.py 486 and 504: page.wait_for_timeout(2000) and (3000)
VectorSettleMs == 2000
UploadSettleMs == 3000

InitNav ==
  /\ InitApp
  /\ loop = [pc |-> "idle"]
  /\ stuck = [pc |-> "idle"]
  /\ title = [pc |-> "idle"]
  /\ pace = [pc |-> "idle"]
  /\ fill = [pc |-> "idle"]
  /\ w = WaitIdle
  /\ cfg = [credentials |-> TRUE, REQUIRE_API_KEY |-> FALSE, API_KEY |-> "",
            entry |-> "app"]
  /\ tpc = [t \in Threads |-> "none"]
  /\ bot = [t \in Threads |-> NewBot(FALSE)]
  /\ nav = [pc |-> "goto_vector", site |-> "vector", rsite |-> "upload",
            attempt |-> 0, elapsed |-> 0, page_stuck_count |-> 0,
            stop_requested |-> FALSE, during |-> FALSE, since_check |-> 0,
            captcha |-> "none", result |-> "none"]

\* step1_navigate_to_dreamstime returns r, or lets the stop exception out
Step1Return(n, r) == [n EXCEPT !.result = r, !.pc = "returned"]

\* automation.py 525-527: an exception raised in the body of the try
\* (StopRequestedException included) is reported as 'Navigation failed'
Step1Except(n) == Step1Return(n, "false")

\* check_for_captcha returns val, reached the way `how` names; the caller
\* (488-490 or 507-509) returns False on False and goes on otherwise
CaptchaReturn(n, how, val) ==
  IF ~val THEN Step1Return([n EXCEPT !.captcha = how], "false")
  ELSE [n EXCEPT !.captcha = how,
                 !.pc = IF n.site = "vector" THEN "goto_upload"
                        ELSE "is_logged_in"]

\* automation.py 188-189: the stop exception leaves check_for_captcha
CaptchaRaise(n) == Step1Except([n EXCEPT !.captcha = "raised"])

\* What refresh_page_if_stuck hands to the place that called it
RefreshReturn(n, val) ==
  IF n.rsite = "upload"
  THEN IF val THEN [n EXCEPT !.pc = "settle_upload"]   \* 500-502
       ELSE Step1Return(n, "false")
  ELSE IF val THEN [n EXCEPT !.pc = "goto_vector"]     \* 523: retry the step
       ELSE Step1Return(n, "false")                     \* 524

\* The stop exception leaves refresh_page_if_stuck (315-316): in the body
\* of step 1 it is caught at 525, in the handler of 519 nothing catches it
RefreshRaise(n) ==
  IF n.rsite = "upload" THEN Step1Except(n) ELSE Step1Return(n, "raised")

\* automation.py 484-485: to the vector page
step1_goto_vector ==
  /\ nav.pc = "goto_vector"
  /\ \/ nav' = [nav EXCEPT !.pc = "settle_vector"]
     \/ nav' = [nav EXCEPT !.pc = "navigation_timeout"]  \* 519
     \/ nav' = Step1Except(nav)                           \* 525
  /\ UNCHANGED <<appvars, w, loop, stuck, title, pace, fill>>

\* automation.py 486: page.wait_for_timeout(2000), then the first check
step1_settle_vector ==
  /\ nav.pc = "settle_vector"
  /\ nav' = [nav EXCEPT !.since_check = @ + VectorSettleMs,
                        !.site = "vector", !.pc = "check_for_captcha"]
  /\ UNCHANGED <<appvars, w, loop, stuck, title, pace, fill>>

\* automation.py 126-146 and 186-192: the detection
check_for_captcha_detect ==
  /\ nav.pc = "check_for_captcha"
  /\ \/ nav' = CaptchaReturn(nav, "clear", TRUE)          \* 186
     \/ nav' = CaptchaReturn(nav, "error", TRUE)          \* 190-192
     \/ nav' = [nav EXCEPT !.captcha = "detected", !.pc = "bypass_focus"]
  /\ UNCHANGED <<appvars, w, loop, stuck, title, pace, fill>>

\* automation.py 202-213: the two sleeps around the Tab key, Enter down
attempt_captcha_bypass_focus ==
  /\ nav.pc = "bypass_focus"
  /\ \/ nav' = [nav EXCEPT !.since_check = @ + FocusSleepMs + TabSleepMs,
                           !.elapsed = 0, !.pc = "bypass_hold"]
     \/ nav' = [nav EXCEPT !.since_check = @ + FocusSleepMs,  \* 230-232
                           !.attempt = 0, !.pc = "poll_check"]
  /\ UNCHANGED <<appvars, w, loop, stuck, title, pace, fill>>

\* automation.py 215-229: one turn of the hold loop, or its end
attempt_captcha_bypass_hold ==
  /\ nav.pc = "bypass_hold"
  /\ IF nav.elapsed < max_hold
     THEN LET n == [nav EXCEPT !.since_check = @ + check_interval,
                               !.elapsed = @ + check_interval] IN
          \/ nav' = CaptchaReturn(n, "bypassed", TRUE)    \* 220-226, 149-151
          \/ nav' = n
          \/ nav' = [n EXCEPT !.attempt = 0, !.pc = "poll_check"]  \* 230
     ELSE nav' = [nav EXCEPT !.attempt = 0, !.pc = "poll_check"]   \* 227-229
  /\ UNCHANGED <<appvars, w, loop, stuck, title, pace, fill>>

\* automation.py 167-169 and 183-184: the head of the polling loop
check_for_captcha_poll ==
  /\ nav.pc = "poll_check"
  /\ nav' = IF ~(nav.attempt < PollCeiling)
            THEN CaptchaReturn(nav, "timeout", FALSE)
            ELSE IF nav.stop_requested
            THEN CaptchaRaise([nav EXCEPT !.since_check = 0])
            ELSE [nav EXCEPT !.since_check = 0, !.elapsed = 0,
                             !.pc = "poll_wait"]
  /\ UNCHANGED <<appvars, w, loop, stuck, title, pace, fill>>

\* automation.py 171 with utils.py 181-185: the loop test of safe_wait,
\* the stop check, the next increment
check_for_captcha_safe_wait ==
  /\ nav.pc = "poll_wait"
  /\ nav' = IF ~(nav.elapsed < PollWaitMs) THEN [nav EXCEPT !.pc = "poll_title"]
            ELSE IF nav.stop_requested
            THEN CaptchaRaise([nav EXCEPT !.since_check = 0])
            ELSE [nav EXCEPT !.since_check = 0, !.pc = "poll_sleep"]
  /\ UNCHANGED <<appvars, w, loop, stuck, title, pace, fill>>

\* utils.py 186-187: page.wait_for_timeout(wait_time) is over
check_for_captcha_safe_wait_wake ==
  /\ nav.pc = "poll_sleep"
  /\ LET wait_time == Min(interval, PollWaitMs - nav.elapsed) IN
     nav' = [nav EXCEPT !.since_check = @ + wait_time,
                        !.elapsed = @ + wait_time, !.pc = "poll_wait"]
  /\ UNCHANGED <<appvars, w, loop, stuck, title, pace, fill>>

\* automation.py 173-180: the title after the wait
check_for_captcha_poll_title ==
  /\ nav.pc = "poll_title"
  /\ \/ nav' = CaptchaReturn(nav, "solved", TRUE)         \* 175-177
     \/ nav' = CaptchaReturn(nav, "error", TRUE)          \* 190-192
     \/ nav' = [nav EXCEPT !.attempt = @ + 1, !.pc = "poll_check"]
  /\ UNCHANGED <<appvars, w, loop, stuck, title, pace, fill>>

\* automation.py 494-502: to the upload page
step1_goto_upload ==
  /\ nav.pc = "goto_upload"
  /\ \/ nav' = [nav EXCEPT !.pc = "settle_upload"]
     \/ nav' = [nav EXCEPT !.rsite = "upload", !.pc = "refresh"] \* 500-501
     \/ nav' = Step1Except(nav)
  /\ UNCHANGED <<appvars, w, loop, stuck, title, pace, fill>>

\* automation.py 504: page.wait_for_timeout(3000), then the second check
step1_settle_upload ==
  /\ nav.pc = "settle_upload"
  /\ nav' = [nav EXCEPT !.since_check = @ + UploadSettleMs,
                        !.site = "upload", !.pc = "check_for_captcha"]
  /\ UNCHANGED <<appvars, w, loop, stuck, title, pace, fill>>

\* automation.py 511-517
step1_is_logged_in ==
  /\ nav.pc = "is_logged_in"
  /\ \E ok \in BOOLEAN : nav' = Step1Return(nav, IF ok THEN "true" ELSE "false")
  /\ UNCHANGED <<appvars, w, loop, stuck, title, pace, fill>>

\* automation.py 519-524: the handler of a navigation timeout
step1_navigation_timeout ==
  /\ nav.pc = "navigation_timeout"
  /\ \/ nav' = Step1Return(nav, "false")                  \* not stuck
     \/ nav' = [nav EXCEPT !.rsite = "retry", !.pc = "refresh"]
  /\ UNCHANGED <<appvars, w, loop, stuck, title, pace, fill>>

\* automation.py 281-301 and 317-319: the guard, the count, the reload
step1_refresh_page_if_stuck ==
  /\ nav.pc = "refresh"
  /\ IF nav.page_stuck_count >= MaxStuckRetries
     THEN nav' = RefreshReturn(nav, FALSE)
     ELSE LET n == [nav EXCEPT !.page_stuck_count = @ + 1] IN
          \/ nav' = [n EXCEPT !.elapsed = 0, !.pc = "refresh_wait"]
          \/ nav' = RefreshReturn(n, FALSE)               \* 317-319
  /\ UNCHANGED <<appvars, w, loop, stuck, title, pace, fill>>

\* automation.py 304 with utils.py 181-185
step1_refresh_safe_wait ==
  /\ nav.pc = "refresh_wait"
  /\ nav' = IF ~(nav.elapsed < RefreshWaitMs)
            THEN [nav EXCEPT !.pc = "refresh_verify"]
            ELSE IF nav.stop_requested
            THEN RefreshRaise([nav EXCEPT !.since_check = 0])
            ELSE LET wait_time == Min(interval, RefreshWaitMs - nav.elapsed) IN
                 [nav EXCEPT !.since_check = wait_time,
                             !.elapsed = @ + wait_time]
  /\ UNCHANGED <<appvars, w, loop, stuck, title, pace, fill>>

\* automation.py 306-313: the verdict after the refresh
step1_refresh_verify ==
  /\ nav.pc = "refresh_verify"
  /\ \/ nav' = RefreshReturn([nav EXCEPT !.page_stuck_count = 0], TRUE)
     \/ nav' = [nav EXCEPT !.pc = "refresh"]              \* 313
  /\ UNCHANGED <<appvars, w, loop, stuck, title, pace, fill>>

\* automation.py 1223-1226, from the request thread
StopDuringStep1 ==
  /\ nav.pc \notin {"idle", "returned"}
  /\ ~nav.stop_requested
  /\ nav' = [nav EXCEPT !.stop_requested = TRUE,
                        !.during = (nav.pc = "poll_sleep")]
  /\ UNCHANGED <<appvars, w, loop, stuck, title, pace, fill>>

\* The steps of the run thread
Step1Thread ==
  \/ step1_goto_vector
  \/ step1_settle_vector
  \/ check_for_captcha_detect
  \/ attempt_captcha_bypass_focus
  \/ attempt_captcha_bypass_hold
  \/ check_for_captcha_poll
  \/ check_for_captcha_safe_wait
  \/ check_for_captcha_safe_wait_wake
  \/ check_for_captcha_poll_title
  \/ step1_goto_upload
  \/ step1_settle_upload
  \/ step1_is_logged_in
  \/ step1_navigation_timeout
  \/ step1_refresh_page_if_stuck
  \/ step1_refresh_safe_wait
  \/ step1_refresh_verify

NextNav == Step1Thread \/ StopDuringStep1

\* The run thread is never suspended for good: it takes its next step
\* whenever it has one. Nothing is assumed of the page or of the operator.
SpecNav == InitNav /\ [][NextNav]_vars /\ WF_vars(Step1Thread)

\* C33: the manual fallback polls at most 60 times; it returns False only
\* after the 60th poll; and when stop is requested during one of its
\* 5-second waits the call ends by raising, not by returning.
C33_PollingRaisesOnStop ==
  /\ nav.pc # "idle" => nav.attempt <= PollCeiling
  /\ nav.pc # "idle" /\ nav.captcha = "timeout" => nav.attempt = PollCeiling
  /\ nav.pc # "idle" /\ nav.during => nav.captcha \notin {"solved", "timeout"}

\* C34: the run thread never sleeps for more than 100 ms in all without
\* looking at the stop flag.
C34_WaitsPollStopFlag ==
  nav.pc # "idle" => nav.since_check <= interval

\* C36: whatever the page answers, step 1 returns (or raises) after
\* finitely many navigation attempts.
C36_Step1Terminates ==
  nav.pc # "idle" ~> nav.pc = "returned"

====
